---- MODULE Spec2Model ----
(***************************************************************************)
(* Model of the extraction pipeline engine of epv                          *)
(* (src/src/api/execute_script.rs) and of the URL cache it shares          *)
(* (src/src/util.rs).                                                      *)
(*                                                                         *)
(* exec_pipeline is a driver that, per stage, spawns one exec_action task  *)
(* per element, and collects their messages from a bounded channel.  The   *)
(* combinator actions Or, Pair and Filter call exec_pipeline again from    *)
(* inside a task.  Every await of the code is a step boundary here.        *)
(***************************************************************************)
EXTENDS Integers, Sequences, FiniteSets, TLC

VARIABLES
    script,          \* the actions handed to the root exec_pipeline call
    seed,            \* the element vector handed to the root call
    pipes,           \* exec_pipeline invocations, by id
    tasks,           \* spawned exec_action tasks, by id
    cache,           \* the shared ManagedUrlCache
    capacity,        \* the capacity of the channel a stage creates
    calls,           \* Cache::insert calls made on the cache directly
    response         \* the request of the execute_script handler and its answer

vars == <<script, seed, pipes, tasks, cache, capacity, calls, response>>

(***************************************************************************)
(* Bounds of the model.                                                    *)
(***************************************************************************)
MaxSeedLen == 2
MaxScriptLen == 2
\* No stage of more tasks than this is spawned: the run is cut there.
MaxStageTasks == 4
\* Direct use of Cache<K, V, N>: N up to MaxCacheN, MaxCallers callers that make
\* MaxCalls insert calls in all.
MaxCacheN == 2
MaxCallers == 2
MaxCalls == 3
\* Elements on one side of a seed pair.
MaxSideLen == 2
\* Top-level elements of a returned vector that is turned into rows.
MaxRows == 2

(***************************************************************************)
(* Program constants.                                                      *)
(***************************************************************************)
ChannelCapacity == 16
CacheN == 1000

(***************************************************************************)
(* Values: elements, actions, errors, messages.  Records have one shape    *)
(* per kind; the fields a variant does not carry hold "" or <<>>.          *)
(***************************************************************************)
Html(s) == [t |-> "Html", v |-> s, l |-> <<>>, r |-> <<>>]
Text(s) == [t |-> "Text", v |-> s, l |-> <<>>, r |-> <<>>]
EmailEl(id) == [t |-> "Email", v |-> id, l |-> <<>>, r |-> <<>>]
UrlEl(u) == [t |-> "Url", v |-> u, l |-> <<>>, r |-> <<>>]
PairEl(left, right) == [t |-> "Pair", v |-> "", l |-> left, r |-> right]

Act(name, arg, arg2, num, s1, s2) ==
    [name |-> name, arg |-> arg, arg2 |-> arg2, num |-> num, s1 |-> s1, s2 |-> s2]
A0(name) == Act(name, "", "", 0, <<>>, <<>>)
A1(name, arg) == Act(name, arg, "", 0, <<>>, <<>>)
A2(name, arg, arg2) == Act(name, arg, arg2, 0, <<>>, <<>>)
AN(name, num) == Act(name, "", "", num, <<>>, <<>>)
Macro(name) == A1("Macro", name)
Or(a, b) == Act("Or", "", "", 0, a, b)
Pair(a, b) == Act("Pair", "", "", 0, a, b)
Filter(a) == Act("Filter", "", "", 0, a, <<>>)

InternalError == [e |-> "InternalError", data |-> ""]
InvalidInput(s) == [e |-> "InvalidInput", data |-> s]
NoError == [e |-> "None", data |-> ""]
NoElement == [t |-> "None", v |-> "", l |-> <<>>, r |-> <<>>]

MsgDone == [kind |-> "Done", el |-> NoElement, err |-> NoError]
MsgError(e) == [kind |-> "Error", el |-> NoElement, err |-> e]
MsgElement(x) == [kind |-> "Element", el |-> x, err |-> NoError]

Range(s) == {s[i] : i \in 1..Len(s)}
Elements(s) == [i \in 1..Len(s) |-> MsgElement(s[i])]
SelectMsgs(s, kind) == SelectSeq(s, LAMBDA m : m.kind = kind)
ElementsOf(s) ==
    LET sent == SelectMsgs(s, "Element") IN [i \in 1..Len(sent) |-> sent[i].el]
Count(s, x) == Cardinality({i \in 1..Len(s) : s[i] = x})
SameBag(s, u) ==
    \/ s = u
    \/ /\ Len(s) = Len(u)
       /\ \A x \in Range(s) : Count(s, x) = Count(u, x)

RECURSIVE Concat(_)
Concat(ss) == IF ss = <<>> THEN <<>> ELSE Head(ss) \o Concat(Tail(ss))

(***************************************************************************)
(* The environment: the email store, the content directory, the macros of  *)
(* the configuration, and the libraries (regex, scraper, url, reqwest)     *)
(* tabulated on the strings of the model.                                  *)
(***************************************************************************)
Emails ==
    { [id |-> "e1", html |-> "e1.html", user |-> "u", from_addr |-> "a@x.test",
       to_addr |-> "u@x.test", subject |-> "invoice"],
      [id |-> "e2", html |-> "e2.html", user |-> "u", from_addr |-> "b@x.test",
       to_addr |-> "u+2@x.test", subject |-> "aa a"],
      [id |-> "e3", html |-> "e3.html", user |-> "v", from_addr |-> "c@x.test",
       to_addr |-> "v@x.test", subject |-> "https://x.test/p/q?id=7&id=9"] }
EmailById(id) == CHOOSE m \in Emails : m.id = id

get_attribute(email, attribute) ==
    CASE attribute = "Id" -> email.id
      [] attribute = "FromAddress" -> email.from_addr
      [] attribute = "Subject" -> email.subject
      [] attribute = "ToAddress" -> email.to_addr

HtmlLinks == "<a href=u>1</a><a>2</a>"
HtmlPara == "<p>hello</p>"
UrlLong == "https://x.test/p/q?id=7&id=9"
UrlMail == "mailto:u@x.test"
UrlFinal == "https://y.test/z"
UrlDeep == "https://x.test/a/b/c"

FileContents(path) == HtmlLinks

Macros ==
    << [name |-> "outer", actions |-> <<A0("TextToHtml"), A0("HtmlOuterHtml")>>],
       [name |-> "empty", actions |-> <<>>],
       [name |-> "nested", actions |-> <<Macro("outer")>>] >>

\* Regex::new fails on these operands.
RegexNewFails(re) == re = "("
\* regex.captures_iter(s), each capture expanded against the template.
CapturesIter(re, s) ==
    CASE re = "a+" /\ s = "aa a" -> <<"aa", "a">>
      [] re = "^invoice$" /\ s = "invoice" -> <<"invoice">>
      [] OTHER -> <<>>
CapExpand(cap, replacement) == IF replacement = "$0" THEN cap ELSE replacement
RegexIsMatch(re, s) == CapturesIter(re, s) # <<>>

\* Selector::parse fails on these operands.
SelectorParseFails(sel) == sel = "a["
\* Html::parse_fragment(html).select(sel), each match's outer HTML.
SelectOuter(html, sel) ==
    CASE html = HtmlLinks /\ sel = "a" -> <<"<a href=u>1</a>", "<a>2</a>">>
      [] html = "<a href=u>1</a>" /\ sel = "a" -> <<"<a href=u>1</a>">>
      [] html = "<a>2</a>" /\ sel = "a" -> <<"<a>2</a>">>
      [] html = HtmlPara /\ sel = "p" -> <<HtmlPara>>
      [] OTHER -> <<>>
\* fragment_root: the first element that is not html, head or body, if any.
HasFragmentRoot(html) == html \in {HtmlLinks, HtmlPara, "<a href=u>1</a>", "<a>2</a>"}
RootInnerText(html) ==
    CASE html = HtmlLinks -> "1"
      [] html = "<a href=u>1</a>" -> "1"
      [] html = "<a>2</a>" -> "2"
      [] html = HtmlPara -> "hello"
      [] OTHER -> ""
RootInnerHtml(html) == RootInnerText(html)
RootAttr(html, name) ==
    IF html \in {HtmlLinks, "<a href=u>1</a>"} /\ name = "href" THEN <<"u">> ELSE <<>>

\* Url::parse: the serialization of the parsed URL, or failure.
UrlParseFails(s) == s \notin {UrlLong, UrlMail, UrlFinal, "https://x.test"}
UrlParse(s) == IF s = "https://x.test" THEN "https://x.test/" ELSE s
\* url.path_segments(): None for a URL that cannot be a base.
HasPathSegments(u) == u # UrlMail
PathSegments(u) ==
    CASE u = UrlLong -> <<"p", "q">>
      [] u = UrlFinal -> <<"z">>
      [] u = "https://x.test/" -> <<"">>
      [] u = UrlDeep -> <<"a", "b", "c">>
      [] OTHER -> <<>>
QueryPairs(u) ==
    IF u = UrlLong THEN << <<"id", "7">>, <<"id", "9">> >> ELSE <<>>
\* response.url() of a successful GET.
ResponseUrl(u) == IF u = UrlLong THEN UrlFinal ELSE u

(***************************************************************************)
(* exec_action: the match on (action, element).                            *)
(***************************************************************************)
\* The element variants each action's match arm takes.
Accepts(action, el) ==
    CASE action.name \in {"EmailToHtml", "EmailFilterRegex", "EmailGetAttr"} -> el.t = "Email"
      [] action.name \in {"HtmlInnerText", "HtmlOuterHtml", "HtmlInnerHtml", "HtmlGetAttr",
                          "HtmlSelectCss", "HtmlFilterCss"} -> el.t = "Html"
      [] action.name \in {"TextMatchRegex", "TextFilterRegex", "TextToHtml", "TextToUrl"} ->
            el.t = "Text"
      [] action.name \in {"UrlToText", "UrlFollowRedirect", "UrlGetQuery", "UrlGetSegment"} ->
            el.t = "Url"
      [] action.name \in {"PairGetLeft", "PairGetRight", "PairZipTogether",
                          "PairDistributeLeft", "PairRightLeft"} -> el.t = "Pair"
      [] action.name \in {"ArraySelectNth", "Or", "Pair", "Filter"} -> TRUE
      [] OTHER -> FALSE

\* The messages of a task that ends normally, and of one that ends on an error.
Emit(els) == Elements(els) \o <<MsgDone>>
Fail(e) == <<MsgError(e)>>

\* Iterator::nth (0-based) as a sequence of zero or one value.
Nth(s, k) == IF k >= 0 /\ k < Len(s) THEN <<s[k + 1]>> ELSE <<>>
Rev(s) == [i \in 1..Len(s) |-> s[Len(s) + 1 - i]]
Min(a, b) == IF a < b THEN a ELSE b

\* i8 arithmetic of UrlGetSegment's (-*segment_index - 1) as usize.
WrapI8(x) == ((x + 128) % 256) - 128
NegIndexOverflows(i) == (-i # WrapI8(-i)) \/ (WrapI8(-i) - 1 # WrapI8(WrapI8(-i) - 1))
NegIndex(i) == WrapI8(WrapI8(-i) - 1)

\* The arms that await a file read, an HTTP request or a sub-pipeline.
Awaits(action, el) ==
    \/ action.name \in {"Or", "Pair", "Filter"}
    \/ action.name = "EmailToHtml" /\ el.t = "Email"
    \/ action.name = "UrlFollowRedirect" /\ el.t = "Url"

\* UrlGetSegment on a URL with path segments and an index whose negation overflows.
ArmOverflows(action, el) ==
    /\ action.name = "UrlGetSegment" /\ el.t = "Url"
    /\ HasPathSegments(el.v)
    /\ action.num < 0
    /\ NegIndexOverflows(action.num)

FirstQuery(pairs, key) ==
    LET hits == SelectSeq(pairs, LAMBDA kv : kv[1] = key)
    IN  IF hits = <<>> THEN <<>> ELSE <<hits[1][2]>>

\* Mutant of SelectsNth: the index counted from one.
SelectsNthFromOne(target_index, element_index) == target_index = element_index + 1

\* ArraySelectNth's test of the task's position in the stage input.
SelectsNth(target_index, element_index) == target_index = element_index

\* Mutant of OuterHtml: the string is parsed as a fragment and serialized again.
OuterHtmlSerialized(html_string) ==
    CASE html_string = "<p>hello" -> "<p>hello</p>"
      [] html_string = "a<b" -> "a&lt;b"
      [] html_string = "&" -> "&amp;"
      [] OTHER -> html_string

\* HtmlOuterHtml's text: the Html element's string itself, not parsed.
OuterHtml(html_string) == html_string

\* Mutant of RightLeft: the sides are swapped and each is reversed.
RightLeftReversed(el) == PairEl(Rev(el.r), Rev(el.l))

\* PairRightLeft's element: the pair with its sides exchanged.
RightLeft(el) == PairEl(el.r, el.l)

\* Mutant of CatchAllArm: a mismatch reported as an error.
CatchAllArmFails(action, el) == Fail(InvalidInput(action.arg))

\* The catch-all arm: nothing is emitted, and the task goes on to its Done.
CatchAllArm(action, el) == Emit(<<>>)

\* The messages a task sends, in order, for the arms that do not await anything
\* but the channel; the last case is the catch-all arm.
ArmMessages(action, el, element_index) ==
    LET n == action.name
        t == el.t
    IN  CASE n = "HtmlSelectCss" /\ t = "Html" ->
                IF SelectorParseFails(action.arg) THEN Fail(InvalidInput(action.arg))
                ELSE LET hits == SelectOuter(el.v, action.arg)
                     IN  Emit([i \in 1..Len(hits) |-> Html(hits[i])])
          [] n = "HtmlFilterCss" /\ t = "Html" ->
                IF SelectorParseFails(action.arg) THEN Fail(InvalidInput(action.arg))
                ELSE IF Len(SelectOuter(el.v, action.arg)) # 0 THEN Emit(<<el>>)
                ELSE Emit(<<>>)
          [] n = "HtmlInnerText" /\ t = "Html" ->
                IF HasFragmentRoot(el.v) THEN Emit(<<Text(RootInnerText(el.v))>>)
                ELSE Emit(<<>>)
          [] n = "HtmlOuterHtml" /\ t = "Html" -> Emit(<<Text(OuterHtml(el.v))>>)
          [] n = "HtmlInnerHtml" /\ t = "Html" ->
                IF HasFragmentRoot(el.v) THEN Emit(<<Text(RootInnerHtml(el.v))>>)
                ELSE Emit(<<>>)
          [] n = "TextMatchRegex" /\ t = "Text" ->
                IF RegexNewFails(action.arg) THEN Fail(InvalidInput(action.arg))
                ELSE LET caps == CapturesIter(action.arg, el.v)
                     IN  Emit([i \in 1..Len(caps) |-> Text(CapExpand(caps[i], action.arg2))])
          [] n = "TextFilterRegex" /\ t = "Text" ->
                IF RegexNewFails(action.arg) THEN Fail(InvalidInput(action.arg))
                ELSE IF RegexIsMatch(action.arg, el.v) THEN Emit(<<el>>)
                ELSE Emit(<<>>)
          [] n = "TextToHtml" /\ t = "Text" -> Emit(<<Html(el.v)>>)
          [] n = "HtmlGetAttr" /\ t = "Html" ->
                IF HasFragmentRoot(el.v)
                THEN Emit([i \in 1..Len(RootAttr(el.v, action.arg)) |->
                              Text(RootAttr(el.v, action.arg)[i])])
                ELSE Emit(<<>>)
          [] n = "TextToUrl" /\ t = "Text" ->
                IF UrlParseFails(el.v) THEN Fail(InvalidInput(el.v))
                ELSE Emit(<<UrlEl(UrlParse(el.v))>>)
          [] n = "UrlToText" /\ t = "Url" -> Emit(<<Text(el.v)>>)
          [] n = "UrlGetQuery" /\ t = "Url" ->
                LET q == FirstQuery(QueryPairs(el.v), action.arg)
                IN  Emit([i \in 1..Len(q) |-> Text(q[i])])
          [] n = "EmailFilterRegex" /\ t = "Email" ->
                IF RegexNewFails(action.arg2) THEN Fail(InvalidInput(action.arg2))
                ELSE IF RegexIsMatch(action.arg2, get_attribute(EmailById(el.v), action.arg))
                THEN Emit(<<el>>)
                ELSE Emit(<<>>)
          [] n = "UrlGetSegment" /\ t = "Url" ->
                IF ~HasPathSegments(el.v) THEN <<MsgDone>>
                ELSE LET segs == PathSegments(el.v)
                         hit == IF action.num < 0 THEN Nth(Rev(segs), NegIndex(action.num))
                                ELSE Nth(segs, action.num)
                     IN  Emit([i \in 1..Len(hit) |-> Text(hit[i])])
          [] n = "ArraySelectNth" ->
                IF SelectsNth(action.num, element_index) THEN Emit(<<el>>) ELSE Emit(<<>>)
          [] n = "EmailGetAttr" /\ t = "Email" ->
                Emit(<<Text(get_attribute(EmailById(el.v), action.arg))>>)
          [] n = "PairGetLeft" /\ t = "Pair" -> Emit(el.l)
          [] n = "PairGetRight" /\ t = "Pair" -> Emit(el.r)
          [] n = "PairZipTogether" /\ t = "Pair" ->
                Emit([i \in 1..Min(Len(el.l), Len(el.r)) |-> PairEl(<<el.l[i]>>, <<el.r[i]>>)])
          [] n = "PairDistributeLeft" /\ t = "Pair" ->
                Emit([i \in 1..Len(el.r) |-> PairEl(el.l, <<el.r[i]>>)])
          [] n = "PairRightLeft" /\ t = "Pair" -> Emit(<<RightLeft(el)>>)
          [] OTHER -> CatchAllArm(action, el)

(***************************************************************************)
(* Identifiers.  The root invocation is <<>>; the task of stage k (from 1) *)
(* and element index i (from 0) of invocation p is p \o <<k, i>>; the      *)
(* first and second sub-pipeline of task t are t \o <<1>> and t \o <<2>>.  *)
(***************************************************************************)
Root == <<>>
TaskId(p, k, i) == p \o <<k, i>>
PipeOf(t) == SubSeq(t, 1, Len(t) - 2)
StageOf(t) == t[Len(t) - 1]
Sub(t, b) == t \o <<b>>
OwnerOf(p) == SubSeq(p, 1, Len(p) - 1)
NoTasks == [x \in {} |-> 0]
NoPipes == [x \in {} |-> 0]
\* Cache::new for Cache<K, V, N>; the const parameter N is kept with the value.
CacheNew(n) == [data |-> [x \in {} |-> 0], last_id |-> 0, N |-> n]
EmptyCache == CacheNew(CacheN)
\* The generation of a task that has not called insert.
NoId == -1

(***************************************************************************)
(* exec_pipeline.                                                          *)
(***************************************************************************)
FindMacro(name) == SelectSeq(Macros, LAMBDA mac : mac.name = name)

\* Mutant of ExpandActions: a macro's body is put after the remaining actions.
RECURSIVE ExpandActionsMisplaced(_)
ExpandActionsMisplaced(actions) ==
    IF actions = <<>> THEN [ok |-> TRUE, actions |-> <<>>, err |-> NoError]
    ELSE LET action == Head(actions)
             found == FindMacro(action.arg)
         IN  IF action.name = "Macro" /\ found = <<>>
             THEN [ok |-> FALSE, actions |-> <<>>, err |-> InvalidInput(action.arg)]
             ELSE LET rest == ExpandActionsMisplaced(Tail(actions))
                  IN  IF ~rest.ok THEN rest
                      ELSE IF action.name = "Macro"
                      THEN [rest EXCEPT !.actions = rest.actions \o found[1].actions]
                      ELSE [rest EXCEPT !.actions = <<action>> \o rest.actions]

\* The expansion loop: [ok, actions, err]; the first unknown macro ends it.
RECURSIVE ExpandActions(_)
ExpandActions(actions) ==
    IF actions = <<>> THEN [ok |-> TRUE, actions |-> <<>>, err |-> NoError]
    ELSE LET action == Head(actions)
             found == FindMacro(action.arg)
             here == IF action.name = "Macro" THEN found[1].actions ELSE <<action>>
         IN  IF action.name = "Macro" /\ found = <<>>
             THEN [ok |-> FALSE, actions |-> <<>>, err |-> InvalidInput(action.arg)]
             ELSE LET rest == ExpandActions(Tail(actions))
                  IN  IF rest.ok THEN [rest EXCEPT !.actions = here \o rest.actions]
                      ELSE rest

\* Mutant of EnterStage: the stage loop without its emptiness check.
EnterStageUnchecked(pipe, k, elements) ==
    IF k > Len(pipe.actions)
    THEN [pipe EXCEPT !.status = "ok", !.elements = elements, !.new_elements = <<>>,
                      !.chan = <<>>]
    ELSE [pipe EXCEPT !.idx = k, !.elements = elements, !.new_elements = <<>>,
                      !.need_finish = Len(elements), !.chan = <<>>]

\* The head of the stage loop for the k-th expanded action: return when the
\* actions are used up or the vector is empty, else open a channel for a stage.
EnterStage(pipe, k, elements) ==
    IF k > Len(pipe.actions) \/ elements = <<>>
    THEN [pipe EXCEPT !.status = "ok", !.elements = elements, !.new_elements = <<>>,
                      !.chan = <<>>]
    ELSE [pipe EXCEPT !.idx = k, !.elements = elements, !.new_elements = <<>>,
                      !.need_finish = Len(elements), !.chan = <<>>]

\* Mutant of EmptyListReturn: an empty action list returns an empty vector.
EmptyListReturnsNothing(base) == [base EXCEPT !.status = "ok", !.elements = <<>>]

\* The expanded action list is empty: the elements are returned as they came.
EmptyListReturn(base) == [base EXCEPT !.status = "ok"]

\* exec_pipeline up to its first await.
CallPipeline(actions, elements) ==
    LET ex == ExpandActions(actions)
        base == [raw |-> actions, actions |-> ex.actions, seed |-> elements, idx |-> 0,
                 elements |-> elements, new_elements |-> <<>>, need_finish |-> 0,
                 chan |-> <<>>, status |-> "running", error |-> NoError]
    IN  IF ~ex.ok THEN [base EXCEPT !.status = "err", !.error = ex.err]
        ELSE IF ex.actions = <<>> THEN EmptyListReturn(base)
        ELSE EnterStage(base, 1, elements)

\* A task whose arm awaits something other than the channel, reads the cache or
\* may panic takes a step of its own before its first send; the other arms only
\* compute locally before it, and their messages are fixed when they are spawned.
StartsAtArm(action, el) == Awaits(action, el) \/ ArmOverflows(action, el)

\* The tasks spawned for the stage the invocation has just entered, if any.
SpawnTasks(p, pipe) ==
    IF pipe.status # "running" THEN NoTasks
    ELSE [t \in {TaskId(p, pipe.idx, i) : i \in 0..(Len(pipe.elements) - 1)} |->
            [action |-> pipe.actions[pipe.idx],
             element |-> pipe.elements[t[Len(t)] + 1],
             element_index |-> t[Len(t)],
             pc |-> IF StartsAtArm(pipe.actions[pipe.idx], pipe.elements[t[Len(t)] + 1])
                    THEN "start" ELSE "send",
             out |-> IF StartsAtArm(pipe.actions[pipe.idx], pipe.elements[t[Len(t)] + 1])
                     THEN <<>>
                     ELSE ArmMessages(pipe.actions[pipe.idx],
                                      pipe.elements[t[Len(t)] + 1], t[Len(t)]),
             trace |-> <<>>, id |-> NoId]]

\* Mutant of OnError: the error is dropped and the loop goes on.
OnErrorIgnored(pipe, m) == [pipe EXCEPT !.chan = Tail(@)]

\* The receive loop on Error(err): the driver returns, dropping the receiver.
OnError(pipe, m) == [pipe EXCEPT !.status = "err", !.error = m.err, !.chan = <<>>]

\* Mutant of OnElement: the element is put in front of the collected ones.
OnElementPrepends(pipe, m) ==
    [pipe EXCEPT !.new_elements = <<m.el>> \o @, !.chan = Tail(@)]

\* The receive loop on Element(el).
OnElement(pipe, m) == [pipe EXCEPT !.new_elements = Append(@, m.el), !.chan = Tail(@)]

\* Mutant of OnDone: the stage ends one Done early.
OnDoneEarly(pipe, m) ==
    IF pipe.need_finish - 1 <= 1
    THEN EnterStage([pipe EXCEPT !.need_finish = 0], pipe.idx + 1, pipe.new_elements)
    ELSE [pipe EXCEPT !.need_finish = @ - 1, !.chan = Tail(@)]

\* Mutant of OnDone: the stage ends at the first Done.
OnDoneFirst(pipe, m) ==
    EnterStage([pipe EXCEPT !.need_finish = 0], pipe.idx + 1, pipe.new_elements)

\* The receive loop on Done: the stage ends with the last outstanding task.
OnDone(pipe, m) ==
    IF pipe.need_finish - 1 = 0
    THEN EnterStage([pipe EXCEPT !.need_finish = 0], pipe.idx + 1, pipe.new_elements)
    ELSE [pipe EXCEPT !.need_finish = @ - 1, !.chan = Tail(@)]

\* One turn of the receive loop on message m.
RecvMessage(pipe, m) ==
    CASE m.kind = "Error" -> OnError(pipe, m)
      [] m.kind = "Element" -> OnElement(pipe, m)
      [] m.kind = "Done" -> OnDone(pipe, m)

\* Mutant of ChannelFull: one slot of the channel is never used.
ChannelFullEarly(chan, cap) == Len(chan) + 1 >= cap

\* A send waits while the channel holds as many messages as its capacity.
ChannelFull(chan, cap) == Len(chan) >= cap

\* The receiver of task t's channel is alive: the driver is still in t's stage.
ChannelOpen(t) == pipes[PipeOf(t)].status = "running" /\ pipes[PipeOf(t)].idx = StageOf(t)

(***************************************************************************)
(* Cache (util.rs).                                                        *)
(***************************************************************************)
\* usize::MAX, scaled to the integers of the checker; the counter of a run stays
\* far below it.
WordMax == 2147483647
wrapping_add(a, b) == IF a > WordMax - b THEN a - (WordMax - b) - 1 ELSE a + b
\* Mutant of wrapping_sub: the difference stops at zero.
saturating_sub(a, b) == IF a >= b THEN a - b ELSE 0

wrapping_sub(a, b) == IF a >= b THEN a - b ELSE WordMax - (b - a - 1)
CacheGet(c, key) == IF key \in DOMAIN c.data THEN <<c.data[key].value>> ELSE <<>>
\* Mutant of CacheAfterGet: a hit gives the entry the current generation.
CacheGetRefreshes(c, key) ==
    IF key \in DOMAIN c.data THEN [c EXCEPT !.data[key].id = c.last_id] ELSE c

\* The cache after get(key): data.get takes a shared reference into the map.
CacheAfterGet(c, key) == c
CacheStore(c, key, value, id) ==
    [c EXCEPT !.data = (key :> [value |-> value, id |-> id]) @@ c.data]
\* Mutant of CacheEvict: nothing is ever removed.
CacheEvictNever(c, id) == c

CacheEvict(c, id) ==
    IF Cardinality(DOMAIN c.data) >= c.N
    THEN [c EXCEPT !.data = [k \in {x \in DOMAIN c.data :
                                       wrapping_sub(id, c.data[x].id) >= c.N} |->
                                c.data[k]]]
    ELSE c

\* Cache::insert with no other operation on the cache between its steps.
CacheInsert(c, key, value) ==
    LET id == c.last_id
        taken == [c EXCEPT !.last_id = wrapping_add(@, 1)]
    IN  CacheEvict(CacheStore(taken, key, value, id), id)

(***************************************************************************)
(* The combinator arms after a sub-pipeline has returned.  b is the        *)
(* sub-pipeline that returned (1 or 2), sub1 and sub2 the invocations      *)
(* (sub2 is sub1 while the second has not been called).  The result says   *)
(* whether the second sub-pipeline is called next, or what the task sends. *)
(***************************************************************************)
\* Mutant of OrArm: an error of the first sub-pipeline triggers the fallback.
OrArmCatches(task, b, sub1, sub2) ==
    IF b = 1
    THEN IF sub1.status = "err" \/ sub1.elements = <<>> THEN [call2 |-> TRUE, out |-> <<>>]
         ELSE [call2 |-> FALSE, out |-> Emit(sub1.elements)]
    ELSE IF sub2.status = "err" THEN [call2 |-> FALSE, out |-> Fail(sub2.error)]
         ELSE [call2 |-> FALSE, out |-> Emit(sub2.elements)]

OrArm(task, b, sub1, sub2) ==
    IF b = 1
    THEN IF sub1.status = "err" THEN [call2 |-> FALSE, out |-> Fail(sub1.error)]
         ELSE IF sub1.elements = <<>> THEN [call2 |-> TRUE, out |-> <<>>]
         ELSE [call2 |-> FALSE, out |-> Emit(sub1.elements)]
    ELSE IF sub2.status = "err" THEN [call2 |-> FALSE, out |-> Fail(sub2.error)]
         ELSE [call2 |-> FALSE, out |-> Emit(sub2.elements)]

\* Mutant of PairArm: no Pair is sent when a side is empty.
PairArmSkipsEmpty(task, b, sub1, sub2) ==
    IF b = 1
    THEN IF sub1.status = "err" THEN [call2 |-> FALSE, out |-> Fail(sub1.error)]
         ELSE [call2 |-> TRUE, out |-> <<>>]
    ELSE IF sub2.status = "err" THEN [call2 |-> FALSE, out |-> Fail(sub2.error)]
         ELSE IF sub1.elements = <<>> \/ sub2.elements = <<>>
         THEN [call2 |-> FALSE, out |-> Emit(<<>>)]
         ELSE [call2 |-> FALSE, out |-> Emit(<<PairEl(sub1.elements, sub2.elements)>>)]

PairArm(task, b, sub1, sub2) ==
    IF b = 1
    THEN IF sub1.status = "err" THEN [call2 |-> FALSE, out |-> Fail(sub1.error)]
         ELSE [call2 |-> TRUE, out |-> <<>>]
    ELSE IF sub2.status = "err" THEN [call2 |-> FALSE, out |-> Fail(sub2.error)]
         ELSE [call2 |-> FALSE, out |-> Emit(<<PairEl(sub1.elements, sub2.elements)>>)]

\* Mutant of FilterArm: the sub-pipeline's outputs are sent instead of the element.
FilterArmEmitsSub(task, b, sub1, sub2) ==
    IF sub1.status = "err" THEN [call2 |-> FALSE, out |-> Fail(sub1.error)]
    ELSE [call2 |-> FALSE, out |-> Emit(sub1.elements)]

FilterArm(task, b, sub1, sub2) ==
    IF sub1.status = "err" THEN [call2 |-> FALSE, out |-> Fail(sub1.error)]
    ELSE IF sub1.elements # <<>> THEN [call2 |-> FALSE, out |-> Emit(<<task.element>>)]
    ELSE [call2 |-> FALSE, out |-> Emit(<<>>)]

CombinatorArm(task, b, sub1, sub2) ==
    CASE task.action.name = "Or" -> OrArm(task, b, sub1, sub2)
      [] task.action.name = "Pair" -> PairArm(task, b, sub1, sub2)
      [] task.action.name = "Filter" -> FilterArm(task, b, sub1, sub2)

(***************************************************************************)
(* The possible results of an exec_pipeline call, computed stage by stage  *)
(* from the same arms: Ok with a vector, Err with an error, "hang" when    *)
(* the driver waits for a Done that never comes, "cut" when a stage has    *)
(* more than MaxStageTasks tasks.  A stage's vector is any merge of what   *)
(* its tasks emit; if a task sends Error the stage returns one of the      *)
(* errors sent.                                                            *)
(***************************************************************************)
OkResult(v) == [k |-> "ok", v |-> v, e |-> NoError]
ErrResult(e) == [k |-> "err", v |-> <<>>, e |-> e]
Hang == [k |-> "hang", v |-> <<>>, e |-> NoError]
Cut == [k |-> "cut", v |-> <<>>, e |-> NoError]

\* A task's messages as the result the driver sees from it.
OfMessages(ms) ==
    IF ms[1].kind = "Error" THEN ErrResult(ms[1].err) ELSE OkResult(ElementsOf(ms))
\* An invocation's result as the record the combinator arms read.
AsReturned(o) ==
    [status |-> IF o.k = "ok" THEN "ok" ELSE "err", elements |-> o.v, error |-> o.e]

\* All merges of the sequences ss that keep each one's order.
RECURSIVE Merges(_)
Merges(ss) ==
    IF \A i \in 1..Len(ss) : ss[i] = <<>> THEN {<<>>}
    ELSE UNION { { <<Head(ss[i])>> \o m : m \in Merges([ss EXCEPT ![i] = Tail(@)]) } :
                    i \in {j \in 1..Len(ss) : ss[j] # <<>>} }

RECURSIVE PipelineResults(_, _), StageLoopResults(_, _, _), TaskResults(_, _, _)
TaskResults(action, el, element_index) ==
    LET task == [action |-> action, element |-> el]
    IN  IF action.name \in {"Or", "Pair", "Filter"}
        THEN UNION {
                IF o1.k \in {"hang", "cut"} THEN {o1}
                ELSE LET arm1 == CombinatorArm(task, 1, AsReturned(o1), AsReturned(o1))
                     IN  IF ~arm1.call2 THEN {OfMessages(arm1.out)}
                         ELSE { IF o2.k \in {"hang", "cut"} THEN o2
                                ELSE OfMessages(CombinatorArm(task, 2, AsReturned(o1),
                                                              AsReturned(o2)).out) :
                                   o2 \in PipelineResults(action.s2, <<el>>) } :
                o1 \in PipelineResults(action.s1, <<el>>) }
        ELSE IF action.name = "EmailToHtml" /\ el.t = "Email"
        THEN {OkResult(<<Html(FileContents(EmailById(el.v).html))>>), ErrResult(InternalError)}
        ELSE IF action.name = "UrlFollowRedirect" /\ el.t = "Url"
        THEN {OkResult(<<UrlEl(ResponseUrl(el.v))>>), OkResult(<<>>), ErrResult(InternalError)}
        ELSE IF ArmOverflows(action, el)
        THEN {Hang, OfMessages(ArmMessages(action, el, element_index))}
        ELSE {OfMessages(ArmMessages(action, el, element_index))}

StageLoopResults(actions, k, elements) ==
    IF k > Len(actions) \/ elements = <<>> THEN {OkResult(elements)}
    ELSE IF Len(elements) > MaxStageTasks THEN {Cut}
    ELSE LET n == Len(elements)
             choices == [i \in 1..n |-> TaskResults(actions[k], elements[i], i - 1)]
             combos == {c \in [1..n -> UNION {choices[i] : i \in 1..n}] :
                           \A i \in 1..n : c[i] \in choices[i]}
         IN  UNION {
                IF \E i \in 1..n : c[i].k = "cut" THEN {Cut}
                ELSE IF \E i \in 1..n : c[i].k = "err"
                THEN {c[i] : i \in {j \in 1..n : c[j].k = "err"}}
                ELSE IF \E i \in 1..n : c[i].k = "hang" THEN {Hang}
                ELSE UNION { StageLoopResults(actions, k + 1, m) :
                                m \in Merges([i \in 1..n |-> c[i].v]) } :
                c \in combos }

PipelineResults(actions, elements) ==
    LET ex == ExpandActions(actions)
    IN  IF ~ex.ok THEN {ErrResult(ex.err)}
        ELSE IF ex.actions = <<>> THEN {OkResult(elements)}
        ELSE StageLoopResults(ex.actions, 1, elements)

(***************************************************************************)
(* The inputs of a run.  Every action, each with a well-formed and an      *)
(* ill-formed operand, runs alone on every element; the combinators take   *)
(* their sub-scripts from SubScripts; scripts of up to MaxScriptLen core   *)
(* actions run on seeds of up to MaxSeedLen core elements.                 *)
(***************************************************************************)
LeafActions ==
    { A0("EmailToHtml"), A2("EmailFilterRegex", "Subject", "^invoice$"),
      A2("EmailFilterRegex", "Subject", "("), A1("EmailGetAttr", "Subject"),
      A0("HtmlInnerText"), A0("HtmlOuterHtml"), A0("HtmlInnerHtml"),
      A1("HtmlGetAttr", "href"), A1("HtmlSelectCss", "a"), A1("HtmlSelectCss", "a["),
      A1("HtmlFilterCss", "a"), A1("HtmlFilterCss", "a["),
      A2("TextMatchRegex", "a+", "$0"), A2("TextMatchRegex", "(", "$0"),
      A1("TextFilterRegex", "a+"), A1("TextFilterRegex", "("),
      A0("TextToHtml"), A0("TextToUrl"), A0("UrlToText"), A0("UrlFollowRedirect"),
      A1("UrlGetQuery", "id"), AN("UrlGetSegment", -128), AN("UrlGetSegment", -1),
      AN("UrlGetSegment", 1), AN("ArraySelectNth", 0), AN("ArraySelectNth", 1),
      A0("PairGetLeft"), A0("PairGetRight"), A0("PairZipTogether"),
      A0("PairDistributeLeft"), A0("PairRightLeft"),
      Macro("outer"), Macro("empty"), Macro("nested"), Macro("unknown") }

SubScripts ==
    { <<>>, <<A0("TextToHtml")>>, <<A1("HtmlSelectCss", "a")>>,
      <<A1("TextFilterRegex", "(")>>, <<A1("TextFilterRegex", "a+")>>,
      <<Macro("outer")>>, <<Macro("empty")>>, <<Macro("unknown")>>,
      <<Filter(<<Macro("outer")>>), A2("TextMatchRegex", "a+", "$0")>> }

CombinatorActions ==
    {Or(a, b) : a \in SubScripts, b \in SubScripts}
        \cup {Pair(a, b) : a \in SubScripts, b \in SubScripts}
        \cup {Filter(a) : a \in SubScripts}

ActionUniverse == LeafActions \cup CombinatorActions

ElementUniverse ==
    { EmailEl("e1"), Html(HtmlLinks), Html(HtmlPara), Text("aa a"), Text(UrlLong),
      UrlEl(UrlLong), UrlEl(UrlMail),
      PairEl(<<Text("aa a"), Html(HtmlPara)>>, <<PairEl(<<Text("b")>>, <<>>)>>) }

CoreActions ==
    { A1("HtmlSelectCss", "a"), Macro("outer") }

CoreElements == { Html(HtmlLinks), Text("aa a") }

SeqsUpTo(S, n) == UNION {[1..k -> S] : k \in 0..n}

\* Runs in which combinators, file reads and fetches share a stage with other tasks.
MixedRuns ==
    { << <<A0("TextToUrl"), A0("UrlToText")>>, <<Text(UrlLong), Text("aa a")>> >>,
      << <<Or(<<A1("TextFilterRegex", "(")>>, <<>>), A0("TextToHtml")>>,
         <<Text("aa a"), Html(HtmlPara)>> >>,
      << <<Pair(<<A1("HtmlSelectCss", "a")>>, <<Macro("outer")>>), A0("PairGetLeft")>>,
         <<Html(HtmlLinks), Text("aa a")>> >>,
      << <<Filter(<<A0("TextToUrl")>>), A0("TextToUrl")>>,
         <<Text(UrlLong), Text("aa a")>> >>,
      << <<A0("UrlFollowRedirect"), A0("UrlFollowRedirect")>>,
         <<UrlEl(UrlLong), UrlEl(UrlLong)>> >>,
      << <<A1("HtmlSelectCss", "a"), AN("ArraySelectNth", 1)>>,
         <<Html(HtmlLinks), Text("aa a")>> >>,
      << <<A0("TextToHtml"), A1("HtmlSelectCss", "a")>>,
         <<Text("aa a"), Html(HtmlLinks)>> >>,
      << <<A0("TextToHtml"), A0("HtmlOuterHtml")>>, <<Text("aa a"), Html(HtmlLinks)>> >>,
      << <<A0("HtmlOuterHtml"), AN("ArraySelectNth", 0)>>,
         <<Html(HtmlLinks), Html(HtmlPara)>> >>,
      << <<A0("PairGetLeft")>>,
         <<PairEl(<<Text("aa a"), Html(HtmlPara)>>, <<>>), PairEl(<<Text("b")>>, <<>>)>> >>,
      << <<A1("TextFilterRegex", "(")>>, <<Text("aa a"), Text("aa a")>> >>,
      << <<A1("TextFilterRegex", "("), A1("HtmlSelectCss", "a")>>,
         <<Html(HtmlLinks), Text("aa a")>> >>,
      << <<Macro("outer"), A1("TextFilterRegex", "(")>>, <<Text("aa a"), Html(HtmlLinks)>> >>,
      << <<A1("HtmlSelectCss", "a"), A0("HtmlOuterHtml"), A1("TextFilterRegex", "(")>>,
         <<Html(HtmlLinks)>> >>,
      << <<Macro("outer"), A0("TextToHtml")>>, <<Text("aa a"), Html(HtmlPara)>> >>,
      << <<A0("HtmlInnerText"), Macro("outer")>>, <<Html(HtmlPara), Text("aa a")>> >>,
      << <<Macro("empty"), A0("TextToHtml")>>, <<Text("aa a"), Html(HtmlPara)>> >>,
      << <<A0("TextToHtml"), Macro("empty")>>, <<Text("aa a"), Html(HtmlPara)>> >>,
      << <<Macro("empty"), Macro("empty")>>, <<Text("aa a"), Html(HtmlPara)>> >>,
      << <<Macro("nested"), A0("TextToHtml")>>, <<Text("aa a"), Html(HtmlPara)>> >>,
      << <<A0("EmailToHtml"), A1("HtmlSelectCss", "a")>>,
         <<EmailEl("e1"), EmailEl("e1")>> >> }

\* One ArraySelectNth over stage inputs of mixed variants, every index up to one
\* past the end.
SelectElements == { EmailEl("e1"), UrlEl(UrlLong), PairEl(<<Text("b")>>, <<>>) }
SelectRuns ==
    {<<AN("ArraySelectNth", i)>> : i \in 0..MaxSeedLen} \X SeqsUpTo(SelectElements, MaxSeedLen)

Inputs ==
    ({<<a>> : a \in ActionUniverse} \X {<<e>> : e \in ElementUniverse})
        \cup (SeqsUpTo(CoreActions, MaxScriptLen) \X SeqsUpTo(CoreElements, MaxSeedLen))
        \cup MixedRuns
        \cup SelectRuns

\* The callers of Cache::insert outside a pipeline run.  n counts the calls begun,
\* keys the keys they passed; sequential says that no call was split into its
\* steps so far; last is the latest whole call, with the cache it was made on.
\* got is the latest lookup, with the cache it was made on and what it returned,
\* when no insert was made since.
\* No request is being handled: exec_pipeline was called by something else.
NoResponse ==
    [user |-> "", format |-> "", status |-> "none", error |-> NoError, json |-> <<>>,
     table |-> <<>>]

IdleCaller == [pc |-> "idle", key |-> "", value |-> "", id |-> NoId]
NoCalls ==
    [n |-> 0, keys |-> {}, sequential |-> TRUE, last |-> <<>>, got |-> <<>>,
     active |-> [c \in 1..MaxCallers |-> IdleCaller]]

Init ==
    /\ \E input \in Inputs : script = input[1] /\ seed = input[2]
    /\ pipes = NoPipes
    /\ tasks = NoTasks
    /\ cache = EmptyCache
    /\ capacity = ChannelCapacity
    /\ calls = NoCalls
    /\ response = NoResponse

(***************************************************************************)
(* The state machine.                                                      *)
(***************************************************************************)

\* A task whose pc is "send" has messages left; it ends when the last is sent.
Sending(task, msgs) == [task EXCEPT !.pc = "send", !.out = msgs]

\* Mutant of Detached: a task is cancelled when its call returns an error.
CancelledOnError(t) == pipes[PipeOf(t)].status # "err"

\* tokio::spawn's JoinHandle is dropped at once: the task is detached and resumes
\* from its awaits whatever has become of the call that spawned it.
Detached(t) == TRUE

\* The caller (the facade, or any caller of exec_pipeline) starts the run.
ExecuteScript ==
    /\ pipes = NoPipes
    /\ LET pipe == CallPipeline(script, seed)
       IN  /\ Cardinality(DOMAIN SpawnTasks(Root, pipe)) <= MaxStageTasks
           /\ pipes' = (Root :> pipe)
           /\ tasks' = SpawnTasks(Root, pipe)
    /\ UNCHANGED <<script, seed, cache, capacity, calls, response>>

\* A spawned task runs its match arm up to the arm's first await.
TaskStart(t) ==
    /\ tasks[t].pc = "start"
    /\ LET task == tasks[t]
           action == task.action
           el == task.element
       IN  IF action.name \in {"Or", "Pair", "Filter"}
           THEN LET sub == CallPipeline(action.s1, <<el>>)
                IN  /\ pipes' = (Sub(t, 1) :> sub) @@ pipes
                    /\ tasks' = SpawnTasks(Sub(t, 1), sub) @@ [tasks EXCEPT ![t].pc = "sub1"]
                    /\ UNCHANGED cache
           ELSE /\ UNCHANGED <<pipes, cache>>
                /\ IF action.name = "EmailToHtml" /\ el.t = "Email"
                   THEN tasks' = [tasks EXCEPT ![t].pc = "read"]
                   ELSE IF action.name = "UrlFollowRedirect" /\ el.t = "Url"
                   THEN IF CacheGet(cache, el.v) # <<>>
                        THEN tasks' = [tasks EXCEPT
                                 ![t] = Sending(task, Emit(<<UrlEl(CacheGet(cache, el.v)[1])>>))]
                        ELSE \/ tasks' = [tasks EXCEPT ![t].pc = "http"]
                             \/ tasks' = [tasks EXCEPT
                                    ![t] = Sending(task, Fail(InternalError))]
                   ELSE \/ tasks' = [tasks EXCEPT ![t].pc = "panicked"]
                        \/ tasks' = [tasks EXCEPT ![t] =
                               Sending(task, ArmMessages(action, el, task.element_index))]
    /\ UNCHANGED <<script, seed, capacity, calls, response>>

\* EmailToHtml: fs::read_to_string returns.
TaskRead(t) ==
    /\ Detached(t)
    /\ tasks[t].pc = "read"
    /\ \/ tasks' = [tasks EXCEPT ![t] = Sending(tasks[t],
              Emit(<<Html(FileContents(EmailById(tasks[t].element.v).html))>>))]
       \/ tasks' = [tasks EXCEPT ![t] = Sending(tasks[t], Fail(InternalError))]
    /\ UNCHANGED <<script, seed, pipes, cache, capacity, calls, response>>

\* Mutant of HttpFailed: a transport failure reported as an error.
HttpFailedReports(task) == Sending(task, Fail(InternalError))

\* UrlFollowRedirect: the GET failed at transport level; Done is sent and the
\* task returns.
HttpFailed(task) == Sending(task, <<MsgDone>>)

\* UrlFollowRedirect: the GET returns; on success insert takes its generation.
TaskHttp(t) ==
    /\ Detached(t)
    /\ tasks[t].pc = "http"
    /\ \/ /\ tasks' = [tasks EXCEPT ![t] = HttpFailed(tasks[t])]
          /\ UNCHANGED cache
       \/ /\ tasks' = [tasks EXCEPT ![t].pc = "store", ![t].id = cache.last_id]
          /\ cache' = [cache EXCEPT !.last_id = wrapping_add(@, 1)]
    /\ UNCHANGED <<script, seed, pipes, capacity, calls, response>>

\* Cache::insert: the map store.
TaskStore(t) ==
    /\ tasks[t].pc = "store"
    /\ cache' = CacheStore(cache, tasks[t].element.v, ResponseUrl(tasks[t].element.v),
                           tasks[t].id)
    /\ tasks' = [tasks EXCEPT ![t].pc = "evict"]
    /\ UNCHANGED <<script, seed, pipes, capacity, calls, response>>

\* Cache::insert: the size check and the retain pass; then the arm goes on.
TaskEvict(t) ==
    /\ tasks[t].pc = "evict"
    /\ cache' = CacheEvict(cache, tasks[t].id)
    /\ tasks' = [tasks EXCEPT ![t] = Sending(tasks[t],
                    Emit(<<UrlEl(ResponseUrl(tasks[t].element.v))>>))]
    /\ UNCHANGED <<script, seed, pipes, capacity, calls, response>>

\* Or, Pair, Filter: the awaited sub-pipeline has returned.
TaskAwaitSub(t) ==
    /\ Detached(t)
    /\ tasks[t].pc \in {"sub1", "sub2"}
    /\ LET b == IF tasks[t].pc = "sub1" THEN 1 ELSE 2
       IN  /\ pipes[Sub(t, b)].status # "running"
           /\ LET arm == CombinatorArm(tasks[t], b, pipes[Sub(t, 1)], pipes[Sub(t, b)])
                  sub == CallPipeline(tasks[t].action.s2, <<tasks[t].element>>)
              IN  IF arm.call2
                  THEN /\ pipes' = (Sub(t, 2) :> sub) @@ pipes
                       /\ tasks' = SpawnTasks(Sub(t, 2), sub) @@
                                       [tasks EXCEPT ![t].pc = "sub2"]
                  ELSE /\ tasks' = [tasks EXCEPT ![t] = Sending(tasks[t], arm.out)]
                       /\ UNCHANGED pipes
    /\ UNCHANGED <<script, seed, cache, capacity, calls, response>>

\* channel.send(msg).await: waits while the channel is full, fails (ignored) once
\* the receiver is dropped.
TaskSend(t) ==
    /\ Detached(t)
    /\ tasks[t].pc = "send"
    /\ LET m == Head(tasks[t].out)
           rest == Tail(tasks[t].out)
       IN  /\ tasks' = [tasks EXCEPT ![t].out = rest, ![t].trace = Append(@, m),
                                     ![t].pc = IF rest = <<>> THEN "done" ELSE "send"]
           /\ IF ChannelOpen(t)
              THEN /\ ~ChannelFull(pipes[PipeOf(t)].chan, capacity)
                   /\ pipes' = [pipes EXCEPT ![PipeOf(t)].chan = Append(@, m)]
              ELSE UNCHANGED pipes
    /\ UNCHANGED <<script, seed, cache, capacity, calls, response>>

\* rx.recv().await returns a message.
DriverRecv(p) ==
    /\ pipes[p].status = "running"
    /\ pipes[p].chan # <<>>
    /\ LET pipe == RecvMessage(pipes[p], Head(pipes[p].chan))
       IN  /\ Cardinality(DOMAIN SpawnTasks(p, pipe)) <= MaxStageTasks
           /\ pipes' = [pipes EXCEPT ![p] = pipe]
           /\ tasks' = IF pipe.idx # pipes[p].idx THEN SpawnTasks(p, pipe) @@ tasks
                       ELSE tasks
    /\ UNCHANGED <<script, seed, cache, capacity, calls, response>>

Next ==
    \/ ExecuteScript
    \/ \E t \in DOMAIN tasks : TaskStart(t)
    \/ \E t \in DOMAIN tasks : TaskRead(t)
    \/ \E t \in DOMAIN tasks : TaskHttp(t)
    \/ \E t \in DOMAIN tasks : TaskStore(t)
    \/ \E t \in DOMAIN tasks : TaskEvict(t)
    \/ \E t \in DOMAIN tasks : TaskAwaitSub(t)
    \/ \E t \in DOMAIN tasks : TaskSend(t)
    \/ \E p \in DOMAIN pipes : DriverRecv(p)

Spec == Init /\ [][Next]_vars

(***************************************************************************)
(* The same engine with the channel of another positive capacity: smaller  *)
(* than a task's emissions, smaller than the tasks of a stage, and the     *)
(* program's.                                                              *)
(***************************************************************************)
Capacities == {1, 2, ChannelCapacity}

CapInputs ==
    MixedRuns
        \cup SelectRuns
        \cup ({<<a>> : a \in CoreActions} \X SeqsUpTo(CoreElements, MaxSeedLen))
        \cup (SeqsUpTo(CoreActions, MaxScriptLen) \X {<<e>> : e \in CoreElements})

InitCap ==
    /\ \E input \in CapInputs : script = input[1] /\ seed = input[2]
    /\ pipes = NoPipes
    /\ tasks = NoTasks
    /\ cache = EmptyCache
    /\ capacity \in Capacities
    /\ calls = NoCalls
    /\ response = NoResponse

SpecCap == InitCap /\ [][Next]_vars

(***************************************************************************)
(* The engine on a cache that earlier requests have filled: CacheN - 1     *)
(* distinct URLs were fetched and inserted, one after another, since the   *)
(* cache was made.                                                         *)
(***************************************************************************)
Filler(i) == "https://h.test/" \o ToString(i)

WarmCache ==
    [data |-> [k \in {Filler(i) : i \in 1..(CacheN - 1)} |->
                  [value |-> k, id |-> (CHOOSE i \in 1..(CacheN - 1) : Filler(i) = k) - 1]],
     last_id |-> CacheN - 1,
     N |-> CacheN]

\* Runs that fetch a URL and then follow it again.
RefetchRuns ==
    { << <<Pair(<<A0("UrlFollowRedirect")>>, <<A0("UrlFollowRedirect")>>)>>,
         <<UrlEl(UrlLong)>> >>,
      << <<A0("UrlFollowRedirect"), A0("UrlFollowRedirect")>>, <<UrlEl(UrlMail)>> >>,
      << <<A0("UrlFollowRedirect"), A0("UrlFollowRedirect")>>,
         <<UrlEl(UrlMail), UrlEl(UrlLong)>> >> }

InitWarm ==
    /\ \E input \in MixedRuns \cup RefetchRuns : script = input[1] /\ seed = input[2]
    /\ pipes = NoPipes
    /\ tasks = NoTasks
    /\ cache \in {EmptyCache, WarmCache}
    /\ capacity = ChannelCapacity
    /\ calls = NoCalls
    /\ response = NoResponse

SpecWarm == InitWarm /\ [][Next]_vars

(***************************************************************************)
(* The engine on runs in which several UrlFollowRedirect tasks follow the  *)
(* same URL at once: in one stage, and in two exec_pipeline calls that run *)
(* side by side on the shared cache, as the calls of two requests do.      *)
(***************************************************************************)
RaceRuns ==
    { << <<A0("UrlFollowRedirect")>>, <<UrlEl(UrlLong), UrlEl(UrlLong)>> >>,
      << <<A0("UrlFollowRedirect")>>, <<UrlEl(UrlLong), UrlEl(UrlMail), UrlEl(UrlLong)>> >>,
      << <<Or(<<A0("UrlFollowRedirect")>>, <<>>)>>, <<UrlEl(UrlLong), UrlEl(UrlLong)>> >>,
      << <<Filter(<<A0("UrlFollowRedirect"), A0("UrlFollowRedirect")>>)>>,
         <<UrlEl(UrlMail), UrlEl(UrlMail)>> >>,
      << <<A0("UrlFollowRedirect"), A0("TextToUrl")>>,
         <<UrlEl(UrlLong), Text("aa a"), UrlEl(UrlLong)>> >>,
      << <<Or(<<A0("UrlFollowRedirect")>>, <<A0("TextToUrl")>>)>>,
         <<UrlEl(UrlLong), Text("aa a")>> >>,
      << <<Pair(<<A0("EmailToHtml")>>, <<A1("EmailGetAttr", "Subject")>>)>>,
         <<EmailEl("e1")>> >> }

InitRace ==
    /\ \E input \in RaceRuns : script = input[1] /\ seed = input[2]
    /\ pipes = NoPipes
    /\ tasks = NoTasks
    /\ cache \in {EmptyCache, WarmCache}
    /\ capacity = ChannelCapacity
    /\ calls = NoCalls
    /\ response = NoResponse

SpecRace == InitRace /\ [][Next]_vars

(***************************************************************************)
(* The engine on the runs of its laws: action lists that are empty after   *)
(* expansion, at top level and inside combinators, beside the mixed runs.  *)
(***************************************************************************)
EmptyScripts == { <<>>, <<Macro("empty")>>, <<Macro("empty"), Macro("empty")>> }

EmptyRuns ==
    (EmptyScripts \X SeqsUpTo(ElementUniverse, MaxSeedLen))
        \cup (({<<Or(a, b)>> : a \in EmptyScripts, b \in SubScripts}
                 \cup {<<Pair(a, b)>> : a \in EmptyScripts, b \in EmptyScripts}
                 \cup {<<Filter(a)>> : a \in EmptyScripts})
              \X {<<e>> : e \in ElementUniverse})
        \cup ({<<Filter(<<Or(<<>>, <<A0("TextToHtml")>>)>>)>>,
                <<Pair(<<Filter(<<>>)>>, <<Macro("empty")>>)>>}
              \X {<<e>> : e \in ElementUniverse})

\* TextToHtml then HtmlOuterHtml on texts that are not well-formed fragments.
RoundTripTexts == {"", "aa a", "a<b", "<p>hello", "&", HtmlPara, HtmlLinks, UrlLong}
RoundTripRuns ==
    {<<A0("TextToHtml"), A0("HtmlOuterHtml")>>, <<Macro("outer")>>}
        \X {<<Text(s)>> : s \in RoundTripTexts}

\* One and two PairRightLeft on pairs whose sides hold up to MaxSideLen elements,
\* nested pairs among them.
SideElements == { Text("b"), Html(HtmlPara), PairEl(<<>>, <<UrlEl(UrlLong), Text("aa a")>>) }
PairUniverse ==
    {PairEl(left, right) : left \in SeqsUpTo(SideElements, MaxSideLen),
                           right \in SeqsUpTo(SideElements, MaxSideLen)}
RightLeftRuns ==
    {<<A0("PairRightLeft")>>, <<A0("PairRightLeft"), A0("PairRightLeft")>>}
        \X {<<p>> : p \in PairUniverse}

\* UrlGetSegment with every index of its type on URLs of no, one, two and three
\* path segments.
I8 == -128..127
SegmentUrls == {UrlMail, UrlFinal, UrlLong, UrlDeep}
SegmentRuns == {<<AN("UrlGetSegment", i)>> : i \in I8} \X {<<UrlEl(u)>> : u \in SegmentUrls}

LawInputs ==
    MixedRuns \cup EmptyRuns \cup RoundTripRuns \cup RightLeftRuns \cup SegmentRuns

InitLaws ==
    /\ \E input \in LawInputs : script = input[1] /\ seed = input[2]
    /\ pipes = NoPipes
    /\ tasks = NoTasks
    /\ cache = EmptyCache
    /\ capacity = ChannelCapacity
    /\ calls = NoCalls
    /\ response = NoResponse

SpecLaws == InitLaws /\ [][Next]_vars

(***************************************************************************)
(* The engine under the scheduling of the runtime: a spawned task that can *)
(* take a step takes it, a file read and an HTTP request come back, and a  *)
(* driver whose channel holds a message receives it.  Runs in which one    *)
(* task of a stage sends Error while others of the stage are still at      *)
(* work, blocked on a full channel or awaiting a sub-pipeline, are added   *)
(* to the mixed runs.                                                      *)
(***************************************************************************)
ErrorRuns ==
    { << <<Or(<<A1("TextFilterRegex", "(")>>, <<A1("HtmlSelectCss", "a")>>)>>,
         <<Html(HtmlLinks), Text("aa a")>> >>,
      << <<Or(<<A1("TextFilterRegex", "(")>>, <<A1("HtmlSelectCss", "a")>>)>>,
         <<Text("aa a"), Html(HtmlLinks)>> >>,
      << <<A0("TextToUrl")>>, <<Text(UrlLong), Text("aa a"), Text(UrlLong)>> >>,
      << <<A0("TextToUrl"), A0("UrlFollowRedirect"), A0("UrlToText"), A0("TextToUrl")>>,
         <<Text(UrlLong), Text(UrlMail)>> >>,
      << <<Or(<<A1("TextFilterRegex", "(")>>, <<A0("UrlFollowRedirect")>>)>>,
         <<UrlEl(UrlLong), Text("aa a")>> >>,
      << <<Or(<<A1("TextFilterRegex", "(")>>, <<AN("UrlGetSegment", -128)>>)>>,
         <<UrlEl(UrlLong), Text("aa a")>> >>,
      << <<Or(<<A1("TextFilterRegex", "(")>>, <<AN("UrlGetSegment", -1)>>)>>,
         <<UrlEl(UrlLong), Text("aa a")>> >> }

InitFair ==
    /\ \E input \in MixedRuns \cup ErrorRuns : script = input[1] /\ seed = input[2]
    /\ pipes = NoPipes
    /\ tasks = NoTasks
    /\ cache = EmptyCache
    /\ capacity \in Capacities
    /\ calls = NoCalls
    /\ response = NoResponse

Fairness ==
    /\ WF_vars(ExecuteScript)
    /\ WF_vars(\E t \in DOMAIN tasks : TaskStart(t))
    /\ WF_vars(\E t \in DOMAIN tasks : TaskRead(t))
    /\ WF_vars(\E t \in DOMAIN tasks : TaskHttp(t))
    /\ WF_vars(\E t \in DOMAIN tasks : TaskStore(t))
    /\ WF_vars(\E t \in DOMAIN tasks : TaskEvict(t))
    /\ WF_vars(\E t \in DOMAIN tasks : TaskAwaitSub(t))
    /\ WF_vars(\E t \in DOMAIN tasks : TaskSend(t))
    /\ WF_vars(\E p \in DOMAIN pipes : DriverRecv(p))

SpecFair == InitFair /\ [][Next]_vars /\ Fairness

(***************************************************************************)
(* The engine, under the same scheduling, on stages whose action carries   *)
(* an operand that does not parse: each such action alone on seeds of      *)
(* every mix of variants, after a stage that hands on nothing, and inside  *)
(* the combinators.                                                        *)
(***************************************************************************)
OperandActions ==
    { A1("TextFilterRegex", "("), A2("TextMatchRegex", "(", "$0"),
      A2("EmailFilterRegex", "Subject", "("), A1("HtmlSelectCss", "a["),
      A1("HtmlFilterCss", "a[") }

OperandElements ==
    { EmailEl("e1"), Html(HtmlPara), Text("aa a"), UrlEl(UrlLong),
      PairEl(<<Text("b")>>, <<>>) }

OperandRuns ==
    ({<<a>> : a \in OperandActions} \X {<<e>> : e \in OperandElements})
        \cup ({<<A1("TextFilterRegex", "(")>>, <<A1("HtmlSelectCss", "a[")>>}
                 \X SeqsUpTo(OperandElements, MaxSeedLen))
        \cup ({<<A1("HtmlSelectCss", "a"), a>> : a \in OperandActions}
                 \X {<<Html(HtmlPara)>>, <<Html(HtmlLinks)>>, <<Text("aa a"), Html(HtmlPara)>>})
        \cup ({<<A0("HtmlInnerText"), a>> : a \in OperandActions}
                 \X {<<Html(HtmlPara), Text("aa a")>>, <<Text("aa a")>>})
        \cup ({<<Or(<<a>>, <<A0("TextToHtml")>>)>> : a \in OperandActions}
                 \X {<<Text("aa a"), Html(HtmlPara)>>})
        \cup ({<<Pair(<<A0("UrlToText"), a>>, <<a>>)>> : a \in OperandActions}
                 \X {<<Text("aa a")>>, <<Html(HtmlPara)>>, <<EmailEl("e1")>>})

InitOperand ==
    /\ \E input \in MixedRuns \cup OperandRuns : script = input[1] /\ seed = input[2]
    /\ pipes = NoPipes
    /\ tasks = NoTasks
    /\ cache = EmptyCache
    /\ capacity \in Capacities
    /\ calls = NoCalls
    /\ response = NoResponse

SpecOperand == InitOperand /\ [][Next]_vars /\ Fairness

(***************************************************************************)
(* The engine, under the same scheduling, on combinators nested in         *)
(* combinators: sub-pipelines of sub-pipelines whose tasks emit more       *)
(* messages than a small channel holds, fetch, read a file, fail, or       *)
(* compute a segment index; and on a stage of several tasks one of which   *)
(* computes a segment index that overflows.                                *)
(***************************************************************************)
NestedRuns ==
    { << <<Pair(<<Or(<<A1("HtmlSelectCss", "a")>>, <<A0("TextToHtml")>>)>>,
                 <<Filter(<<Pair(<<A1("HtmlSelectCss", "a")>>, <<A0("HtmlOuterHtml")>>)>>)>>)>>,
         <<Html(HtmlLinks), Text("aa a")>> >>,
      << <<Or(<<Filter(<<Or(<<A1("TextFilterRegex", "(")>>, <<>>)>>)>>,
               <<Pair(<<>>, <<A1("HtmlSelectCss", "a")>>)>>),
           A0("PairGetRight")>>,
         <<Text("aa a"), Html(HtmlLinks)>> >>,
      << <<Filter(<<Filter(<<Filter(<<A1("HtmlSelectCss", "a"), A0("HtmlOuterHtml")>>)>>)>>)>>,
         <<Html(HtmlLinks), Html(HtmlPara)>> >>,
      << <<Pair(<<A0("UrlFollowRedirect")>>,
                 <<Or(<<AN("UrlGetSegment", 5)>>,
                      <<Filter(<<A0("UrlFollowRedirect")>>), A0("UrlToText")>>)>>)>>,
         <<UrlEl(UrlLong)>> >>,
      << <<Or(<<Pair(<<A0("EmailToHtml"), A1("HtmlSelectCss", "a")>>,
                      <<Filter(<<A2("EmailFilterRegex", "Subject", "(")>>)>>)>>,
               <<A1("EmailGetAttr", "Subject")>>)>>,
         <<EmailEl("e1"), EmailEl("e2")>> >>,
      << <<Filter(<<Or(<<AN("UrlGetSegment", -128)>>, <<>>)>>)>>, <<UrlEl(UrlLong)>> >>,
      << <<AN("UrlGetSegment", -128), A0("TextToUrl")>>,
         <<UrlEl(UrlMail), UrlEl(UrlLong), Text("aa a")>> >>,
      << <<Filter(<<Or(<<AN("UrlGetSegment", -2)>>, <<>>)>>), A0("UrlToText")>>,
         <<UrlEl(UrlLong), UrlEl(UrlMail)>> >> }

InitNested ==
    /\ \E input \in NestedRuns : script = input[1] /\ seed = input[2]
    /\ pipes = NoPipes
    /\ tasks = NoTasks
    /\ cache = EmptyCache
    /\ capacity \in Capacities
    /\ calls = NoCalls
    /\ response = NoResponse

SpecNested == InitNested /\ [][Next]_vars /\ Fairness

(***************************************************************************)
(* The answer of the execute_script handler: the projection of the         *)
(* returned elements to SerdeElement, served as JSON, or flattened into    *)
(* rows for CSV.  A SerdeElement is [type, value, left, right].            *)
(***************************************************************************)
SerdeLeaf(type, value) == [type |-> type, value |-> value, left |-> <<>>, right |-> <<>>]
SerdePair(left, right) == [type |-> "Pair", value |-> "", left |-> left, right |-> right]

\* Mutant of SerdeEmail: the recipient's address instead of the record's id.
SerdeEmailAddress(eml) == eml.to_addr

\* What an Email element projects to: eml.id.to_owned().
SerdeEmail(eml) == eml.id

\* impl From<Element> for SerdeElement.
RECURSIVE SerdeFrom(_)
SerdeFrom(value) ==
    CASE value.t = "Html" -> SerdeLeaf("Html", value.v)
      [] value.t = "Text" -> SerdeLeaf("Text", value.v)
      [] value.t = "Email" -> SerdeLeaf("Email", SerdeEmail(EmailById(value.v)))
      [] value.t = "Url" -> SerdeLeaf("Url", value.v)
      [] value.t = "Pair" ->
            SerdePair([i \in 1..Len(value.l) |-> SerdeFrom(value.l[i])],
                      [i \in 1..Len(value.r) |-> SerdeFrom(value.r[i])])

\* Mutant of PairSideFirst: every element of the side is kept.
PairSideAll(side) == side

\* side.into_iter().next(): the first element of a pair side, if any.
PairSideFirst(side) == IF side = <<>> THEN <<>> ELSE <<side[1]>>

\* flatten_serde_pair(el, &mut v), as the elements pushed onto v.
RECURSIVE flatten_serde_pair(_)
flatten_serde_pair(el) ==
    IF el.type = "Pair"
    THEN Concat([i \in 1..Len(PairSideFirst(el.left)) |->
                    flatten_serde_pair(PairSideFirst(el.left)[i])])
             \o Concat([i \in 1..Len(PairSideFirst(el.right)) |->
                           flatten_serde_pair(PairSideFirst(el.right)[i])])
    ELSE <<el>>

Formats == {"json", "csv"}

\* The handler after exec_pipeline has returned, and the responder's choice by
\* the requested format: the error, or the projected elements handed to the JSON
\* serializer, or the rows the processor makes of them, handed to the CSV writer.
Respond ==
    /\ response.status = "pending"
    /\ Root \in DOMAIN pipes
    /\ pipes[Root].status # "running"
    /\ LET pipelined == pipes[Root].elements
           data == [i \in 1..Len(pipelined) |-> SerdeFrom(pipelined[i])]
       IN  response' =
               IF pipes[Root].status = "err"
               THEN [response EXCEPT !.status = "err", !.error = pipes[Root].error]
               ELSE IF response.format = "json"
               THEN [response EXCEPT !.status = "ok", !.json = data]
               ELSE [response EXCEPT !.status = "ok",
                        !.table = [i \in 1..Len(data) |-> flatten_serde_pair(data[i])]]
    /\ UNCHANGED <<script, seed, pipes, tasks, cache, capacity, calls>>

(***************************************************************************)
(* The handler's tail on what exec_pipeline can have returned: vectors of  *)
(* up to MaxRows elements, which are leaves of the four kinds and pairs,   *)
(* nested up to three deep, whose sides hold up to MaxSideLen elements.    *)
(***************************************************************************)
FormatLeaves == { Html(HtmlPara), Text("b"), EmailEl("e1"), UrlEl(UrlLong) }
FlatPairs ==
    {PairEl(left, right) : left \in SeqsUpTo({Text("b"), EmailEl("e2")}, MaxSideLen),
                           right \in SeqsUpTo({Text("f"), Html(HtmlPara)}, MaxSideLen)}
InnerPairs ==
    { PairEl(<<>>, <<Text("b"), Html(HtmlPara)>>),
      PairEl(<<PairEl(<<EmailEl("e3")>>, <<>>), Text("c")>>, <<Text("d")>>) }
DeepPairs ==
    {PairEl(left, right) :
        left \in SeqsUpTo({UrlEl(UrlLong)} \cup InnerPairs, MaxSideLen),
        right \in SeqsUpTo({Text("f")} \cup InnerPairs, MaxSideLen)}
FormatElements == FormatLeaves \cup FlatPairs \cup DeepPairs
RowElements ==
    FormatLeaves \cup InnerPairs
        \cup {PairEl(<<>>, <<>>), PairEl(<<Text("s")>>, <<Text("f")>>)}
FormatVectors ==
    {<<e>> : e \in FormatElements} \cup SeqsUpTo(RowElements, MaxRows)

\* exec_pipeline has returned Ok(pipelined) to the handler.
InitFormat ==
    /\ script = <<>>
    /\ \E pipelined \in FormatVectors :
          seed = pipelined /\ pipes = (Root :> CallPipeline(<<>>, pipelined))
    /\ tasks = NoTasks
    /\ cache = EmptyCache
    /\ capacity = ChannelCapacity
    /\ calls = NoCalls
    /\ \E format \in Formats :
          response = [NoResponse EXCEPT !.format = format, !.status = "pending"]

NextFormat == Respond

SpecFormat == InitFormat /\ [][NextFormat]_vars

(***************************************************************************)
(* The execute_script handler: a request of an authenticated user with a   *)
(* script and a format.  The handler loads the user's emails, seeds the    *)
(* root exec_pipeline call with them and answers when it returns.          *)
(***************************************************************************)
Users == {"u", "v", "w"}

\* Mutant of QueryRows: the query without its WHERE clause.
QueryAllRows(username) == Emails

\* SELECT * FROM emails WHERE user = $1.
QueryRows(username) == {m \in Emails : m.user = username}

\* The orders in which a query without ORDER BY can return its rows.
Orderings(S) ==
    {f \in [1..Cardinality(S) -> S] : \A i, j \in 1..Cardinality(S) : f[i] = f[j] => i = j}

FacadeScripts ==
    { <<>>,
      <<A1("EmailGetAttr", "Subject")>>,
      <<A0("EmailToHtml"), A1("HtmlSelectCss", "a")>>,
      <<A2("EmailFilterRegex", "Subject", "^invoice$")>>,
      <<Pair(<<A1("EmailGetAttr", "Subject")>>, <<A1("EmailGetAttr", "FromAddress")>>)>>,
      <<Pair(<<>>, <<A0("EmailToHtml")>>)>>,
      <<Pair(<<Pair(<<>>, <<A1("EmailGetAttr", "Subject")>>)>>,
             <<Filter(<<A2("EmailFilterRegex", "Subject", "^invoice$")>>)>>)>>,
      <<Or(<<A2("EmailFilterRegex", "Subject", "^invoice$")>>, <<Pair(<<>>, <<>>)>>)>>,
      <<Pair(<<>>, <<>>), A0("PairZipTogether")>>,
      <<A1("EmailGetAttr", "Subject"), A0("TextToUrl"), A0("UrlFollowRedirect")>>,
      <<Macro("unknown")>> }

InitFacade ==
    /\ script \in FacadeScripts
    /\ seed = <<>>
    /\ pipes = NoPipes
    /\ tasks = NoTasks
    /\ cache = EmptyCache
    /\ capacity = ChannelCapacity
    /\ calls = NoCalls
    /\ \E user \in Users, format \in Formats :
          response = [NoResponse EXCEPT !.user = user, !.format = format,
                                        !.status = "request"]

\* The handler up to the first await of exec_pipeline: the query fails, or one
\* Email element per row seeds the root call.
HandleRequest ==
    /\ response.status = "request"
    /\ \/ /\ response' = [response EXCEPT !.status = "err", !.error = InternalError]
          /\ UNCHANGED <<seed, pipes, tasks>>
       \/ \E emails \in Orderings(QueryRows(response.user)) :
             LET elements == [i \in 1..Len(emails) |-> EmailEl(emails[i].id)]
                 pipe == CallPipeline(script, elements)
             IN  /\ Cardinality(DOMAIN SpawnTasks(Root, pipe)) <= MaxStageTasks
                 /\ seed' = elements
                 /\ pipes' = (Root :> pipe)
                 /\ tasks' = SpawnTasks(Root, pipe)
                 /\ response' = [response EXCEPT !.status = "pending"]
    /\ UNCHANGED <<script, cache, capacity, calls>>

NextFacade ==
    \/ HandleRequest
    \/ \E t \in DOMAIN tasks : TaskStart(t)
    \/ \E t \in DOMAIN tasks : TaskRead(t)
    \/ \E t \in DOMAIN tasks : TaskHttp(t)
    \/ \E t \in DOMAIN tasks : TaskStore(t)
    \/ \E t \in DOMAIN tasks : TaskEvict(t)
    \/ \E t \in DOMAIN tasks : TaskAwaitSub(t)
    \/ \E t \in DOMAIN tasks : TaskSend(t)
    \/ \E p \in DOMAIN pipes : DriverRecv(p)
    \/ Respond

SpecFacade == InitFacade /\ [][NextFacade]_vars

(***************************************************************************)
(* Cache<K, V, N> used directly: insert calls one after another, and       *)
(* insert calls of several callers whose steps (the counter's fetch_add,   *)
(* the map's insert, the len test with the retain pass) interleave.        *)
(***************************************************************************)
CacheKeys == {Filler(i) : i \in 1..(MaxCacheN + 1)}
CacheValues == {UrlFinal, UrlMail}

InitCache ==
    /\ script = <<>> /\ seed = <<>>
    /\ pipes = NoPipes
    /\ tasks = NoTasks
    /\ \E n \in 1..MaxCacheN, start \in {0, WordMax} :
          cache = [CacheNew(n) EXCEPT !.last_id = start]
    /\ capacity = ChannelCapacity
    /\ calls = NoCalls
    /\ response = NoResponse

AllIdle == \A c \in 1..MaxCallers : calls.active[c].pc = "idle"

\* cache.insert(key, value) from start to return, nothing else touching the cache.
Insert(key, value) ==
    /\ AllIdle
    /\ calls.n < MaxCalls
    /\ cache' = CacheInsert(cache, key, value)
    /\ calls' = [calls EXCEPT !.n = @ + 1, !.keys = @ \cup {key},
                              !.last = <<[key |-> key, value |-> value, before |-> cache]>>]
    /\ UNCHANGED <<script, seed, pipes, tasks, capacity, response>>

\* A caller enters insert: last_id.fetch_add(1).
InsertFetch(c, key, value) ==
    /\ calls.active[c].pc = "idle"
    /\ calls.n < MaxCalls
    /\ cache' = [cache EXCEPT !.last_id = wrapping_add(@, 1)]
    /\ calls' = [calls EXCEPT !.n = @ + 1, !.keys = @ \cup {key},
                              !.sequential = FALSE, !.last = <<>>,
                              !.active[c] = [pc |-> "store", key |-> key, value |-> value,
                                             id |-> cache.last_id]]
    /\ UNCHANGED <<script, seed, pipes, tasks, capacity, response>>

\* data.insert(key, CacheEntry { value, id }).
InsertStore(c) ==
    /\ calls.active[c].pc = "store"
    /\ cache' = CacheStore(cache, calls.active[c].key, calls.active[c].value,
                           calls.active[c].id)
    /\ calls' = [calls EXCEPT !.active[c].pc = "evict"]
    /\ UNCHANGED <<script, seed, pipes, tasks, capacity, response>>

\* The len test and the retain pass; insert returns.
InsertEvict(c) ==
    /\ calls.active[c].pc = "evict"
    /\ cache' = CacheEvict(cache, calls.active[c].id)
    /\ calls' = [calls EXCEPT !.active[c] = IdleCaller]
    /\ UNCHANGED <<script, seed, pipes, tasks, capacity, response>>

NextCache ==
    \/ \E key \in CacheKeys, value \in CacheValues : Insert(key, value)
    \/ \E c \in 1..MaxCallers, key \in CacheKeys : InsertFetch(c, key, UrlFinal)
    \/ \E c \in 1..MaxCallers : InsertStore(c)
    \/ \E c \in 1..MaxCallers : InsertEvict(c)

SpecCache == InitCache /\ [][NextCache]_vars

(***************************************************************************)
(* Cache<K, V, N> used directly, lookups between whole insert calls.       *)
(***************************************************************************)
\* cache.get(key): the value of the entry, if there is one.
Get(key) ==
    /\ AllIdle
    /\ cache' = CacheAfterGet(cache, key)
    /\ calls' = [calls EXCEPT !.last = <<>>,
                              !.got = <<[key |-> key, value |-> CacheGet(cache, key),
                                         before |-> cache]>>]
    /\ UNCHANGED <<script, seed, pipes, tasks, capacity, response>>

NextLookup ==
    \/ \E key \in CacheKeys, value \in CacheValues : Insert(key, value)
    \/ \E key \in CacheKeys : Get(key)

SpecLookup == InitCache /\ [][NextLookup]_vars

(***************************************************************************)
(* Vocabulary of the properties.                                           *)
(***************************************************************************)
TasksOf(p, k) ==
    {t \in DOMAIN tasks : Len(t) = Len(p) + 2 /\ StageOf(t) = k /\ PipeOf(t) = p}
\* Everything a task has sent or, past its arm, is still to send.
Messages(t) == tasks[t].trace \o tasks[t].out
PastArm(t) == tasks[t].pc \in {"send", "done"}
Ended(t) == tasks[t].pc \in {"done", "panicked"}
SentErrors(p, k) ==
    {m.err : m \in UNION {Range(SelectMsgs(tasks[t].trace, "Error")) : t \in TasksOf(p, k)}}
\* Stage k of invocation p has completed: a later stage runs, or p returned Ok
\* from its last stage.
StageCompleted(p, k) ==
    /\ k >= 1
    /\ \/ k < pipes[p].idx
       \/ k = pipes[p].idx /\ pipes[p].status = "ok"
\* The vector a completed stage handed on.
StageOutput(p, k) ==
    IF k < pipes[p].idx
    THEN LET n == Cardinality(TasksOf(p, k + 1))
         IN  [i \in 1..n |-> tasks[TaskId(p, k + 1, i - 1)].element]
    ELSE pipes[p].elements
\* The elements the tasks of a stage sent, task after task.
RECURSIVE EmittedBy(_)
EmittedBy(ts) ==
    IF ts = {} THEN <<>>
    ELSE LET t == CHOOSE x \in ts : TRUE
         IN  ElementsOf(tasks[t].trace) \o EmittedBy(ts \ {t})

(***************************************************************************)
(* C1: type mismatch is silent.  A task whose element is not of a variant  *)
(* its action's arm takes sends nothing but one Done; the one-action       *)
(* script [A] on the seed [e] with e not accepted by A never returns an    *)
(* error, returns Ok with the empty vector, and has returned once the      *)
(* task's Done is received.                                                *)
(***************************************************************************)
C1_Mismatch ==
    /\ Len(script) = 1 /\ Len(seed) = 1
    /\ script[1].name # "Macro"
    /\ ~Accepts(script[1], seed[1])

C1_TypeMismatchSilent ==
    /\ \A t \in DOMAIN tasks :
          ~Accepts(tasks[t].action, tasks[t].element) => Messages(t) = <<MsgDone>>
    /\ (C1_Mismatch /\ Root \in DOMAIN pipes) =>
          /\ pipes[Root].status # "err"
          /\ pipes[Root].status = "ok" => pipes[Root].elements = <<>>
          /\ \A t \in TasksOf(Root, 1) :
                (tasks[t].pc = "done" /\ pipes[Root].chan = <<>>) => pipes[Root].status = "ok"
          /\ Cardinality(TasksOf(Root, 1)) = 1

C1_Witness ==
    /\ C1_Mismatch
    /\ script[1].name = "TextToUrl" /\ seed[1].t = "Html"
    /\ Root \in DOMAIN pipes
    /\ pipes[Root].status = "ok" /\ pipes[Root].elements = <<>>
    /\ tasks[TaskId(Root, 1, 0)].trace = <<MsgDone>>

(***************************************************************************)
(* C2: an Error sent in a stage makes the invocation return Err.  Once a   *)
(* task of stage k of an invocation has sent Error, the invocation never   *)
(* returns Ok and launches no later stage; while it has not returned, a    *)
(* message is waiting in the channel for the driver; and the error it      *)
(* returns is one a task of that stage sent.                               *)
(***************************************************************************)
C2_ErrorPropagates ==
    \A p \in DOMAIN pipes :
        /\ \A k \in 1..pipes[p].idx :
              SentErrors(p, k) # {} =>
                 /\ pipes[p].status # "ok"
                 /\ pipes[p].idx = k
                 /\ pipes[p].status = "running" => pipes[p].chan # <<>>
                 /\ pipes[p].status = "err" => pipes[p].error \in SentErrors(p, k)
        /\ (pipes[p].status = "err" /\ pipes[p].idx >= 1) =>
              pipes[p].error \in SentErrors(p, pipes[p].idx)

C2_Witness ==
    /\ Root \in DOMAIN pipes
    /\ pipes[Root].status = "err"
    /\ pipes[Root].error = InvalidInput("aa a")
    /\ pipes[Root].idx = 1 /\ Len(pipes[Root].actions) = 2
    /\ pipes[Root].new_elements # <<>>
    /\ Cardinality(TasksOf(Root, 1)) = 2

(***************************************************************************)
(* C3: a stage that completes hands on exactly what its tasks emitted.     *)
(* When a stage has completed, every task of it has ended with its Done    *)
(* and the vector handed on is, as a multiset, the elements the tasks      *)
(* sent.                                                                   *)
(***************************************************************************)
C3_StageCollectsAll ==
    \A p \in DOMAIN pipes :
        \A k \in 1..pipes[p].idx :
            StageCompleted(p, k) =>
               LET ts == TasksOf(p, k)
               IN  /\ \A t \in ts :
                         tasks[t].pc = "done" /\ tasks[t].trace[Len(tasks[t].trace)] = MsgDone
                   /\ SameBag(StageOutput(p, k), EmittedBy(ts))

C3_Witness ==
    /\ Root \in DOMAIN pipes
    /\ pipes[Root].idx = 2
    /\ Cardinality(TasksOf(Root, 1)) = 2
    /\ \A t \in TasksOf(Root, 1) : Len(ElementsOf(tasks[t].trace)) = 2
    /\ Len(StageOutput(Root, 1)) = 4
    /\ StageOutput(Root, 1)[1] # StageOutput(Root, 1)[2]

(***************************************************************************)
(* C4: the message protocol of a task.  The messages of every task are     *)
(* zero or more Element followed by exactly one Done, or a single Error;   *)
(* a task that has ended has sent all of them.                             *)
(***************************************************************************)
WellFormedMessages(ms) ==
    \/ /\ ms # <<>>
       /\ ms[Len(ms)].kind = "Done"
       /\ \A i \in 1..(Len(ms) - 1) : ms[i].kind = "Element"
    \/ Len(ms) = 1 /\ ms[1].kind = "Error"

C4_MessageProtocol ==
    \A t \in DOMAIN tasks :
        /\ PastArm(t) => WellFormedMessages(Messages(t))
        /\ Ended(t) => WellFormedMessages(tasks[t].trace)

\* The same protocol for the tasks that did not panic.
C4_ProtocolUnlessPanic ==
    \A t \in DOMAIN tasks :
        /\ PastArm(t) => WellFormedMessages(Messages(t))
        /\ tasks[t].pc = "done" => WellFormedMessages(tasks[t].trace)

(***************************************************************************)
(* C5: empty short-circuit.  An invocation whose vector is empty at the    *)
(* head of the stage loop (an empty seed, or a stage all of whose tasks    *)
(* ended on Done without an element) returns Ok with the empty vector      *)
(* there: no task of a later action exists, and an invocation returns Ok   *)
(* before its last action only with the empty vector.                      *)
(***************************************************************************)
StageDrained(p) ==
    /\ pipes[p].chan = <<>>
    /\ \A t \in TasksOf(p, pipes[p].idx) : tasks[t].pc = "done" /\ tasks[t].trace = <<MsgDone>>

RECURSIVE UnknownMacros(_)
UnknownMacros(actions) ==
    IF actions = <<>> THEN {}
    ELSE LET a == Head(actions)
         IN  (IF a.name = "Macro" /\ FindMacro(a.arg) = <<>> THEN {a.arg} ELSE {})
                 \cup UnknownMacros(a.s1) \cup UnknownMacros(a.s2)
                 \cup UnknownMacros(Tail(actions))

C7_UnknownMacroAnywhere ==
    (Root \in DOMAIN pipes /\ UnknownMacros(script) # {}) =>
        /\ pipes[Root].status = "err"
        /\ pipes[Root].error \in {InvalidInput(n) : n \in UnknownMacros(script)}
        /\ tasks = NoTasks

\* What the expansion loop does: an unknown macro among the actions handed to an
\* invocation makes that invocation return InvalidInput before it spawns a task.
C7_UnknownMacroAtCall ==
    \A p \in DOMAIN pipes :
        (\E i \in 1..Len(pipes[p].raw) :
            pipes[p].raw[i].name = "Macro" /\ FindMacro(pipes[p].raw[i].arg) = <<>>) =>
                /\ pipes[p].status = "err"
                /\ pipes[p].error.e = "InvalidInput"
                /\ pipes[p].idx = 0 /\ TasksOf(p, 1) = {}

(***************************************************************************)
(* C8: a Macro action inlined from a macro body fails with InvalidInput    *)
(* when a task executes it.                                                *)
(***************************************************************************)
C8_NestedMacroFails ==
    \A t \in DOMAIN tasks :
        (tasks[t].action.name = "Macro" /\ PastArm(t)) =>
            Messages(t) = Fail(InvalidInput(tasks[t].action.arg))

(***************************************************************************)
(* C9: Or(a, b) on el.  The task calls a on [el]; it calls b on [el]       *)
(* exactly when a returned Ok with the empty vector.  Past its arm it      *)
(* sends a's error if a failed (b not called), a's elements if a returned  *)
(* a non-empty vector (b not called), and else b's elements or b's error.  *)
(***************************************************************************)
CombinatorTasks(name) == {t \in DOMAIN tasks : tasks[t].action.name = name}
Called(p) == p \in DOMAIN pipes
CalledOn(p, actions, el) == pipes[p].raw = actions /\ pipes[p].seed = <<el>>

C9_OrSemantics ==
    \A t \in CombinatorTasks("Or") :
        LET a == Sub(t, 1)
            b == Sub(t, 2)
        IN  /\ Called(a) => CalledOn(a, tasks[t].action.s1, tasks[t].element)
            /\ Called(b) =>
                  /\ CalledOn(b, tasks[t].action.s2, tasks[t].element)
                  /\ Called(a) /\ pipes[a].status = "ok" /\ pipes[a].elements = <<>>
            /\ PastArm(t) =>
                  /\ Called(a) /\ pipes[a].status # "running"
                  /\ pipes[a].status = "err" => Messages(t) = Fail(pipes[a].error)
                  /\ (pipes[a].status = "ok" /\ pipes[a].elements # <<>>) =>
                        Messages(t) = Emit(pipes[a].elements)
                  /\ (pipes[a].status = "ok" /\ pipes[a].elements = <<>>) =>
                        /\ Called(b) /\ pipes[b].status # "running"
                        /\ pipes[b].status = "ok" => Messages(t) = Emit(pipes[b].elements)
                        /\ pipes[b].status = "err" => Messages(t) = Fail(pipes[b].error)

C9_Witness ==
    \E t \in CombinatorTasks("Or") :
        /\ tasks[t].pc = "done"
        /\ pipes[Sub(t, 1)].status = "err" /\ pipes[Sub(t, 1)].idx = 1
        /\ tasks[t].action.s2 # <<>>
        /\ ~Called(Sub(t, 2))
        /\ tasks[t].trace = Fail(InvalidInput("("))

(***************************************************************************)
(* C10: Pair(a, b) on el.  The task calls a on [el] and, only after a has  *)
(* returned Ok, b on [el]; past its arm it sends a's error (b not called), *)
(* or b's error, or exactly one Pair of a's and b's vectors, empty or not. *)
(***************************************************************************)
C10_PairSemantics ==
    \A t \in CombinatorTasks("Pair") :
        LET a == Sub(t, 1)
            b == Sub(t, 2)
        IN  /\ Called(a) => CalledOn(a, tasks[t].action.s1, tasks[t].element)
            /\ Called(b) =>
                  /\ CalledOn(b, tasks[t].action.s2, tasks[t].element)
                  /\ Called(a) /\ pipes[a].status = "ok"
            /\ PastArm(t) =>
                  /\ Called(a) /\ pipes[a].status # "running"
                  /\ pipes[a].status = "err" =>
                        ~Called(b) /\ Messages(t) = Fail(pipes[a].error)
                  /\ pipes[a].status = "ok" =>
                        /\ Called(b) /\ pipes[b].status # "running"
                        /\ pipes[b].status = "err" => Messages(t) = Fail(pipes[b].error)
                        /\ pipes[b].status = "ok" =>
                              Messages(t) =
                                  Emit(<<PairEl(pipes[a].elements, pipes[b].elements)>>)

C10_Witness ==
    \E t \in CombinatorTasks("Pair") :
        /\ tasks[t].pc = "done"
        /\ pipes[Sub(t, 1)].status = "ok" /\ pipes[Sub(t, 1)].elements = <<>>
        /\ pipes[Sub(t, 1)].idx = 1
        /\ pipes[Sub(t, 2)].status = "ok" /\ Len(pipes[Sub(t, 2)].elements) = 2
        /\ tasks[t].trace =
              Emit(<<PairEl(<<>>, pipes[Sub(t, 2)].elements)>>)

(***************************************************************************)
(* C6: macro expansion equivalence.  For a script in which a configured    *)
(* macro whose body holds no Macro occurs, at top level or in a sub-script *)
(* of Or, Pair or Filter, the possible results (the vector as a multiset,  *)
(* or the error) are those of the script with every such Macro replaced in *)
(* place by the body's actions; and what the run returns is one of them.   *)
(***************************************************************************)
Inlinable(a) ==
    /\ a.name = "Macro"
    /\ FindMacro(a.arg) # <<>>
    /\ \A i \in 1..Len(FindMacro(a.arg)[1].actions) :
          FindMacro(a.arg)[1].actions[i].name # "Macro"

RECURSIVE InlineMacros(_)
InlineMacros(actions) ==
    IF actions = <<>> THEN <<>>
    ELSE LET a == Head(actions)
         IN  (IF Inlinable(a) THEN FindMacro(a.arg)[1].actions
              ELSE << [a EXCEPT !.s1 = InlineMacros(a.s1), !.s2 = InlineMacros(a.s2)] >>)
                 \o InlineMacros(Tail(actions))

SameResult(o1, o2) == o1.k = o2.k /\ o1.e = o2.e /\ SameBag(o1.v, o2.v)
SameResults(A, B) ==
    /\ \A a \in A : \E b \in B : SameResult(a, b)
    /\ \A b \in B : \E a \in A : SameResult(a, b)
Returned(p) ==
    IF pipes[p].status = "ok" THEN OkResult(pipes[p].elements) ELSE ErrResult(pipes[p].error)

C6_MacroEquivalence ==
    (/\ Root \in DOMAIN pipes
     /\ pipes[Root].status # "running"
     /\ InlineMacros(script) # script) =>
        /\ SameResults(PipelineResults(script, seed), PipelineResults(InlineMacros(script), seed))
        /\ \E o \in PipelineResults(InlineMacros(script), seed) : SameResult(Returned(Root), o)

C6_Witness ==
    /\ Root \in DOMAIN pipes
    /\ pipes[Root].status = "ok"
    /\ script = <<Pair(<<A1("HtmlSelectCss", "a")>>, <<Macro("outer")>>), A0("PairGetLeft")>>
    /\ InlineMacros(script) =
          <<Pair(<<A1("HtmlSelectCss", "a")>>, <<A0("TextToHtml"), A0("HtmlOuterHtml")>>),
            A0("PairGetLeft")>>
    /\ Len(pipes[Root].elements) = 2

\* Every result a run returns is one PipelineResults computes.
ResultsCoverRuns ==
    \A p \in DOMAIN pipes :
        pipes[p].status # "running" =>
            Returned(p) \in PipelineResults(pipes[p].raw, pipes[p].seed)

(***************************************************************************)
(* C11: Filter(a).  The task calls a on [el] and nothing else.  Once a has *)
(* returned, the task's messages are the error of a, or Element(el) once   *)
(* followed by Done when a returned Ok with at least one element, or Done  *)
(* alone when a returned Ok([]); the outputs of a are never sent.          *)
(***************************************************************************)
C11_FilterSemantics ==
    \A t \in CombinatorTasks("Filter") :
        LET a == Sub(t, 1)
        IN  /\ ~Called(Sub(t, 2))
            /\ Called(a) => CalledOn(a, tasks[t].action.s1, tasks[t].element)
            /\ PastArm(t) =>
                  /\ Called(a) /\ pipes[a].status # "running"
                  /\ Messages(t) =
                        IF pipes[a].status = "err" THEN <<MsgError(pipes[a].error)>>
                        ELSE IF Len(pipes[a].elements) >= 1
                        THEN <<MsgElement(tasks[t].element), MsgDone>>
                        ELSE <<MsgDone>>
            /\ ~PastArm(t) => Messages(t) = <<>>

C11_Witness ==
    /\ Root \in DOMAIN pipes
    /\ script = <<Filter(<<A1("HtmlSelectCss", "a")>>)>> /\ seed = <<Html(HtmlLinks)>>
    /\ pipes[Root].status = "ok" /\ pipes[Root].elements = seed
    /\ Len(pipes[Sub(TaskId(Root, 1, 0), 1)].elements) = 2
    /\ tasks[TaskId(Root, 1, 0)].trace = <<MsgElement(Html(HtmlLinks)), MsgDone>>

(***************************************************************************)
(* C12: ArraySelectNth partition.  The one-action script                   *)
(* [ArraySelectNth(i)] on the stage input [e0, ..., e(k-1)] never returns  *)
(* an error, has returned once every task's Done is received, and returns  *)
(* [e_i] when i < k and [] otherwise, whatever the variants and the order  *)
(* in which the tasks' messages arrive.                                    *)
(***************************************************************************)
C12_SelectRun ==
    /\ Len(script) = 1 /\ script[1].name = "ArraySelectNth"
    /\ Root \in DOMAIN pipes

C12_ArraySelectNth ==
    C12_SelectRun =>
        LET i == script[1].num
        IN  /\ pipes[Root].status # "err"
            /\ pipes[Root].status = "ok" =>
                  pipes[Root].elements = IF i < Len(seed) THEN <<seed[i + 1]>> ELSE <<>>
            /\ Cardinality(TasksOf(Root, 1)) = Len(seed)
            /\ \A t \in TasksOf(Root, 1) :
                  /\ tasks[t].element = seed[tasks[t].element_index + 1]
                  /\ Messages(t) = IF tasks[t].element_index = i
                                   THEN <<MsgElement(tasks[t].element), MsgDone>>
                                   ELSE <<MsgDone>>
            /\ ((\A t \in TasksOf(Root, 1) : tasks[t].pc = "done") /\ pipes[Root].chan = <<>>)
                  => pipes[Root].status = "ok"

\* The second of two elements of different variants is returned.
C12_Witness ==
    /\ C12_SelectRun
    /\ script[1].num = 1
    /\ seed = <<UrlEl(UrlLong), EmailEl("e1")>>
    /\ pipes[Root].status = "ok"
    /\ pipes[Root].elements = <<EmailEl("e1")>>
    /\ \A t \in TasksOf(Root, 1) : tasks[t].pc = "done"

(***************************************************************************)
(* C13: order-preserving stages.  A completed stage that had a single task *)
(* or whose tasks each sent a single element hands on the tasks' elements  *)
(* in the order of the stage's inputs, so that a following ArraySelectNth  *)
(* selects the same element on every schedule.                             *)
(***************************************************************************)
\* What the tasks of stage k of p sent, in the order of the stage's inputs.
InInputOrder(p, k) ==
    Concat([i \in 1..Cardinality(TasksOf(p, k)) |->
               ElementsOf(tasks[TaskId(p, k, i - 1)].trace)])

SingleOutputTasks(p, k) ==
    \A t \in TasksOf(p, k) : Len(ElementsOf(tasks[t].trace)) = 1

C13_OrderPreserving ==
    \A p \in DOMAIN pipes :
        \A k \in 1..pipes[p].idx :
            (/\ StageCompleted(p, k)
             /\ Cardinality(TasksOf(p, k)) = 1 \/ SingleOutputTasks(p, k)) =>
                StageOutput(p, k) = InInputOrder(p, k)

\* The part of C13 about single-task stages.
C13_SingleTaskStage ==
    \A p \in DOMAIN pipes :
        \A k \in 1..pipes[p].idx :
            (StageCompleted(p, k) /\ Cardinality(TasksOf(p, k)) = 1) =>
                StageOutput(p, k) = InInputOrder(p, k)

(***************************************************************************)
(* C14: a task's emissions keep their order.  What a stage has collected,  *)
(* followed by what waits in its channel, is an interleaving of what its   *)
(* tasks have sent that keeps each task's elements in the order the task   *)
(* sent them; so is the vector a completed stage hands on.                 *)
(***************************************************************************)
\* out is an interleaving of the sequences ss that keeps the order of each.
RECURSIVE IsMergeOf(_, _)
IsMergeOf(out, ss) ==
    IF out = <<>> THEN \A i \in 1..Len(ss) : ss[i] = <<>>
    ELSE \E i \in 1..Len(ss) :
            /\ ss[i] # <<>>
            /\ Head(ss[i]) = Head(out)
            /\ IsMergeOf(Tail(out), [ss EXCEPT ![i] = Tail(@)])

\* What each task of stage k of p has sent, by input position.
SentByTask(p, k) ==
    LET n == Cardinality(TasksOf(p, k))
    IN  [i \in 1..n |-> ElementsOf(tasks[TaskId(p, k, i - 1)].trace)]

C14_TaskOrderKept ==
    \A p \in DOMAIN pipes :
        /\ \A k \in 1..pipes[p].idx :
              StageCompleted(p, k) => IsMergeOf(StageOutput(p, k), SentByTask(p, k))
        /\ (pipes[p].status = "running" /\ pipes[p].idx >= 1) =>
              IsMergeOf(pipes[p].new_elements \o ElementsOf(pipes[p].chan),
                        SentByTask(p, pipes[p].idx))

\* The element of the second task arrived between the two of the first.
C14_Witness ==
    /\ Root \in DOMAIN pipes
    /\ script = <<A0("PairGetLeft")>>
    /\ pipes[Root].status = "ok"
    /\ pipes[Root].elements = <<Text("aa a"), Text("b"), Html(HtmlPara)>>
    /\ ElementsOf(tasks[TaskId(Root, 1, 0)].trace) = <<Text("aa a"), Html(HtmlPara)>>
    /\ ElementsOf(tasks[TaskId(Root, 1, 1)].trace) = <<Text("b")>>

(***************************************************************************)
(* C15: the channel's capacity does not matter.  For every capacity, what  *)
(* an invocation returns is one of the results computed from the tasks'    *)
(* messages and their interleavings alone, in which no capacity appears;   *)
(* and no stage is stuck on its channel: while an invocation is in a       *)
(* stage, the driver has a message to receive, or a task of the stage can  *)
(* take a step (a task with a message to send is not held back by an empty *)
(* channel), or waits for a sub-pipeline, or a task of the stage panicked. *)
(***************************************************************************)
CanStep(t) ==
    \/ tasks[t].pc \in {"start", "read", "http", "store", "evict", "sub1", "sub2"}
    \/ /\ tasks[t].pc = "send"
       /\ ~ChannelFull(pipes[PipeOf(t)].chan, capacity)

C15_CapacityIrrelevant ==
    \A p \in DOMAIN pipes :
        /\ pipes[p].status # "running" =>
              Returned(p) \in PipelineResults(pipes[p].raw, pipes[p].seed)
        /\ pipes[p].status = "running" =>
              \/ pipes[p].chan # <<>>
              \/ \E t \in TasksOf(p, pipes[p].idx) : CanStep(t) \/ tasks[t].pc = "panicked"
        /\ Len(pipes[p].chan) <= capacity

\* Capacity 1 with two tasks, one of three messages: the run returns the merge in
\* which the second task's element comes between the two of the first.
C15_Witness ==
    /\ capacity = 1
    /\ Root \in DOMAIN pipes
    /\ script = <<A0("PairGetLeft")>>
    /\ pipes[Root].status = "ok"
    /\ pipes[Root].elements = <<Text("aa a"), Text("b"), Html(HtmlPara)>>

(***************************************************************************)
(* C16: Cache.insert with no concurrent operation.  After insert(k, v)     *)
(* made on a cache with counter value id, the counter is id + 1 modulo the *)
(* word size and the map is the map before with k -> (v, id) stored, from  *)
(* which, if its size is then at least N, exactly the entries whose        *)
(* (id - generation) modulo the word size is at least N were removed; so   *)
(* the entry just inserted is in the map.                                  *)
(***************************************************************************)
\* The map Cache.insert is specified to leave.
InsertSpecified(before, key, value) ==
    LET id == before.last_id
        stored == (key :> [value |-> value, id |-> id]) @@ before.data
    IN  IF Cardinality(DOMAIN stored) >= before.N
        THEN [k \in {x \in DOMAIN stored : wrapping_sub(id, stored[x].id) < before.N} |->
                 stored[k]]
        ELSE stored

C16_InsertEvictsOld ==
    calls.last # <<>> =>
        LET call == calls.last[1]
        IN  /\ cache.last_id = wrapping_add(call.before.last_id, 1)
            /\ cache.data = InsertSpecified(call.before, call.key, call.value)
            /\ CacheGet(cache, call.key) = <<call.value>>

\* The part of C16 that holds: the counter, and the map while it is below N.
C16_InsertBelowN ==
    calls.last # <<>> =>
        LET call == calls.last[1]
            stored == (call.key :> [value |-> call.value, id |-> call.before.last_id])
                          @@ call.before.data
        IN  /\ cache.last_id = wrapping_add(call.before.last_id, 1)
            /\ Cardinality(DOMAIN stored) < cache.N => cache.data = stored

(***************************************************************************)
(* C17: insert calls made one after another keep the map within N: after   *)
(* each call has returned the map holds at most N entries, whatever the    *)
(* keys, also once more than N distinct keys were inserted.                *)
(***************************************************************************)
C17_AtMostNSequential ==
    (calls.sequential /\ AllIdle) => Cardinality(DOMAIN cache.data) <= cache.N

C17_Witness ==
    /\ calls.sequential /\ AllIdle
    /\ cache.N = 2
    /\ Cardinality(calls.keys) = 3
    /\ calls.n = 3
    /\ Cardinality(DOMAIN cache.data) = 1

(***************************************************************************)
(* C18: with insert calls of several callers interleaving step by step,    *)
(* the map holds at most N entries in every reachable state.               *)
(***************************************************************************)
C18_AtMostNConcurrent == Cardinality(DOMAIN cache.data) <= cache.N

(***************************************************************************)
(* C19: a fetched URL is cached.  When a UrlFollowRedirect task has        *)
(* fetched u with final URL f and its insert has returned, and no insert   *)
(* took a generation since, the cache maps u to f, whatever the cache held *)
(* before; a UrlFollowRedirect task that then starts on u sends Url(f) and *)
(* Done without a fetch and without touching the cache.                    *)
(***************************************************************************)
Follows(t) == tasks[t].action.name = "UrlFollowRedirect" /\ tasks[t].element.t = "Url"
\* t fetched its URL and its insert has returned.
Fetched(t) == Follows(t) /\ tasks[t].id # NoId /\ tasks[t].pc \in {"send", "done"}
NoInsertSince(t) == cache.last_id = wrapping_add(tasks[t].id, 1)

C19_FetchedUrlCached ==
    \A t \in DOMAIN tasks :
        (Fetched(t) /\ NoInsertSince(t)) =>
            CacheGet(cache, tasks[t].element.v) = <<ResponseUrl(tasks[t].element.v)>>

\* The part of C19 that holds: the same for a cache that held fewer than
\* CacheN - 1 entries before the fetch.
C19_CachedBelowN ==
    \A t \in DOMAIN tasks :
        (Fetched(t) /\ NoInsertSince(t) /\ tasks[t].id < CacheN - 1) =>
            CacheGet(cache, tasks[t].element.v) = <<ResponseUrl(tasks[t].element.v)>>

\* The part of C19 that holds: a task that starts on a cached URL sends the
\* cached URL and Done, with no fetch and the cache as it was.
C19_HitSkipsFetch ==
    [][\A t \in DOMAIN tasks :
          (/\ Follows(t) /\ tasks[t].pc = "start"
           /\ CacheGet(cache, tasks[t].element.v) # <<>>
           /\ tasks'[t] # tasks[t]) =>
              /\ tasks'[t].pc = "send"
              /\ tasks'[t].out = Emit(<<UrlEl(CacheGet(cache, tasks[t].element.v)[1])>>)
              /\ cache' = cache]_vars

(***************************************************************************)
(* C20: a transport failure is a silent drop.  The step in which the GET   *)
(* of a UrlFollowRedirect task fails leaves the cache (entries and         *)
(* counter) as it was and leaves the task with Done as its only message;   *)
(* such a task never sends an Element or an Error, its invocation does not *)
(* return an error because of it, and the one-action script                *)
(* [UrlFollowRedirect] on one Url whose fetch failed returns Ok([]).       *)
(***************************************************************************)
\* The fetch of t failed: it followed a Url, took no generation, and has Done
\* as its only message.
FetchFailed(t) ==
    Follows(t) /\ PastArm(t) /\ tasks[t].id = NoId /\ Messages(t) = <<MsgDone>>

C20_FailureStep ==
    \A t \in DOMAIN tasks :
        (tasks[t].pc = "http" /\ tasks'[t].pc # "http" /\ tasks'[t].pc # "store") =>
            /\ cache' = cache
            /\ pipes' = pipes
            /\ tasks'[t].pc = "send"
            /\ tasks'[t].out = <<MsgDone>> /\ tasks'[t].trace = <<>>
            /\ tasks'[t].id = NoId

C20_FailedTaskSilent ==
    \A t \in DOMAIN tasks :
        /\ (Follows(t) /\ PastArm(t)) =>
              Messages(t) \in { <<MsgDone>>, <<MsgError(InternalError)>>,
                                <<MsgElement(UrlEl(ResponseUrl(tasks[t].element.v))), MsgDone>> }
        /\ FetchFailed(t) =>
              /\ pipes[PipeOf(t)].status = "err" =>
                    \E u \in DOMAIN tasks \ {t} :
                        /\ PipeOf(u) = PipeOf(t)
                        /\ MsgError(pipes[PipeOf(t)].error) \in Range(tasks[u].trace)
              /\ (script = <<A0("UrlFollowRedirect")>> /\ Len(seed) = 1) =>
                    /\ pipes[Root].status # "err"
                    /\ pipes[Root].status = "ok" => pipes[Root].elements = <<>>
                    /\ (tasks[t].pc = "done" /\ pipes[Root].chan = <<>>) =>
                          pipes[Root].status = "ok"
                    /\ cache = EmptyCache

C20_TransportFailureSilent == []C20_FailedTaskSilent /\ [][C20_FailureStep]_vars

\* A fetch failed beside one that succeeded: the stage completed with the other
\* task's URL only.
C20_Witness ==
    /\ Root \in DOMAIN pipes
    /\ script = <<A0("UrlFollowRedirect"), A0("UrlFollowRedirect")>>
    /\ FetchFailed(TaskId(Root, 1, 0))
    /\ Fetched(TaskId(Root, 1, 1))
    /\ pipes[Root].idx = 2
    /\ Len(StageOutput(Root, 1)) = 1

(***************************************************************************)
(* C24: an exec_pipeline call whose action list is empty after macro       *)
(* expansion returns its seed vector unchanged, same elements in the same  *)
(* order, and launches no task.  Hence, on any element el: Or([], b) emits *)
(* el and never calls b, Filter([]) emits el, and Pair([], []) emits       *)
(* Pair([el], [el]).                                                       *)
(***************************************************************************)
ExpandsToNothing(actions) ==
    ExpandActions(actions).ok /\ ExpandActions(actions).actions = <<>>

TasksLaunchedBy(p) ==
    {t \in DOMAIN tasks : Len(t) = Len(p) + 2 /\ PipeOf(t) = p}

C24_EmptyListReturnsSeed ==
    /\ \A p \in DOMAIN pipes :
          ExpandsToNothing(pipes[p].raw) =>
              /\ pipes[p].status = "ok"
              /\ pipes[p].elements = pipes[p].seed
              /\ TasksLaunchedBy(p) = {}
    /\ \A t \in DOMAIN tasks :
          LET task == tasks[t]
              el == task.element
          IN  (PastArm(t) /\ ExpandsToNothing(task.action.s1)) =>
                 /\ task.action.name = "Or" =>
                       Messages(t) = Emit(<<el>>) /\ ~Called(Sub(t, 2))
                 /\ task.action.name = "Filter" => Messages(t) = Emit(<<el>>)
                 /\ (task.action.name = "Pair" /\ ExpandsToNothing(task.action.s2)) =>
                       Messages(t) = Emit(<<PairEl(<<el>>, <<el>>)>>)

\* A two-element seed came back from an action list of two empty macros, and no
\* task exists.
C24_Witness ==
    /\ Called(Root)
    /\ script = <<Macro("empty"), Macro("empty")>>
    /\ Len(seed) = 2 /\ seed[1] # seed[2]
    /\ pipes[Root].status = "ok"
    /\ pipes[Root].elements = seed
    /\ tasks = NoTasks

\* Or([], b) with a non-empty b has emitted its element and ended.
C24_OrWitness ==
    \E t \in CombinatorTasks("Or") :
        /\ tasks[t].action.s1 = <<Macro("empty")>>
        /\ tasks[t].action.s2 = <<A0("TextToHtml")>>
        /\ tasks[t].pc = "done"
        /\ tasks[t].trace = Emit(<<tasks[t].element>>)
        /\ pipes[Root].status = "ok"

(***************************************************************************)
(* C25: for every text t, the run [TextToHtml, HtmlOuterHtml] on the seed  *)
(* [Text(t)] returns exactly [Text(t)]: it never returns an error, its     *)
(* result is the seed, and it returns once its tasks are through.          *)
(* HtmlOuterHtml emits the Html element's string verbatim.                 *)
(***************************************************************************)
RoundTrip == <<A0("TextToHtml"), A0("HtmlOuterHtml")>>

C25_RoundTrip ==
    /\ (Called(Root) /\ pipes[Root].actions = RoundTrip /\ Len(seed) = 1
            /\ seed[1].t = "Text") =>
          /\ pipes[Root].status # "err"
          /\ pipes[Root].status = "ok" => pipes[Root].elements = seed
          /\ (TaskId(Root, 2, 0) \in DOMAIN tasks /\ tasks[TaskId(Root, 2, 0)].pc = "done"
                  /\ pipes[Root].chan = <<>>) =>
                pipes[Root].status = "ok"
          /\ \A t \in TasksLaunchedBy(Root) :
                /\ tasks[t].element.v = seed[1].v
                /\ Messages(t) = Emit(<<IF StageOf(t) = 1 THEN Html(seed[1].v) ELSE seed[1]>>)
    /\ \A t \in DOMAIN tasks :
          (tasks[t].action.name = "HtmlOuterHtml" /\ tasks[t].element.t = "Html") =>
              Messages(t) = Emit(<<Text(tasks[t].element.v)>>)

\* The round trip returned a text that is not a well-formed fragment.
C25_Witness ==
    /\ Called(Root)
    /\ script = RoundTrip
    /\ seed = <<Text("<p>hello")>>
    /\ pipes[Root].status = "ok"
    /\ pipes[Root].idx = 2
    /\ pipes[Root].elements = seed

(***************************************************************************)
(* C26: for every pair p = Pair(L, R), the run [PairRightLeft,             *)
(* PairRightLeft] on the seed [p] returns [p], with both sides, their      *)
(* element order and any nested pairs as they were, and the run            *)
(* [PairRightLeft] returns [Pair(R, L)]; neither returns an error, and     *)
(* each returns once its tasks are through.                                *)
(***************************************************************************)
\* The root invocation runs n PairRightLeft actions on one pair.
RunsRightLeft(n) ==
    /\ Called(Root)
    /\ pipes[Root].actions = [i \in 1..n |-> A0("PairRightLeft")]
    /\ Len(seed) = 1 /\ seed[1].t = "Pair"

\* The last task of the root invocation's n-th stage is through.
LastTaskDone(n) ==
    /\ TaskId(Root, n, 0) \in DOMAIN tasks
    /\ tasks[TaskId(Root, n, 0)].pc = "done"
    /\ pipes[Root].chan = <<>>

C26_RightLeftInvolution ==
    /\ RunsRightLeft(2) =>
          /\ pipes[Root].status # "err"
          /\ pipes[Root].status = "ok" => pipes[Root].elements = seed
          /\ LastTaskDone(2) => pipes[Root].status = "ok"
    /\ RunsRightLeft(1) =>
          /\ pipes[Root].status # "err"
          /\ pipes[Root].status = "ok" =>
                pipes[Root].elements = <<PairEl(seed[1].r, seed[1].l)>>
          /\ LastTaskDone(1) => pipes[Root].status = "ok"

\* Two PairRightLeft returned a pair whose sides differ, one of them holding two
\* different elements, a nested pair among them.
C26_Witness ==
    /\ RunsRightLeft(2)
    /\ pipes[Root].status = "ok"
    /\ pipes[Root].idx = 2
    /\ pipes[Root].elements = seed
    /\ Len(seed[1].l) = 2 /\ seed[1].l[1] # seed[1].l[2]
    /\ seed[1].l[2].t = "Pair"
    /\ seed[1].r # seed[1].l
    /\ seed[1].r # <<>>

(***************************************************************************)
(* C27: stages run one after another.  Within one exec_pipeline call no    *)
(* task of stage k+1 is launched before the driver has received the Done   *)
(* of every task of stage k: the tasks of a stage are spawned in the step  *)
(* in which the driver receives the last outstanding Done of the stage     *)
(* before, whose tasks have all ended with Done by then; and at any moment *)
(* the tasks of the call that have not ended all belong to the stage the   *)
(* driver is in.                                                           *)
(***************************************************************************)
SentDone(t) == tasks[t].trace # <<>> /\ tasks[t].trace[Len(tasks[t].trace)] = MsgDone
DonesIn(chan) == Len(SelectMsgs(chan, "Done"))

\* The Done markers the driver of p has received in its current stage.
DonesReceived(p) == Len(pipes[p].elements) - pipes[p].need_finish

C27_OneStageLive ==
    \A p \in DOMAIN pipes :
        /\ \A t \in TasksLaunchedBy(p) :
              /\ StageOf(t) <= pipes[p].idx
              /\ StageOf(t) < pipes[p].idx => tasks[t].pc = "done" /\ SentDone(t)
              /\ ~Ended(t) => StageOf(t) = pipes[p].idx
        /\ (pipes[p].status = "running") =>
              /\ pipes[p].idx >= 1
              /\ Cardinality(TasksOf(p, pipes[p].idx)) = Len(pipes[p].elements)
              /\ DonesReceived(p) + DonesIn(pipes[p].chan)
                    = Cardinality({t \in TasksOf(p, pipes[p].idx) : SentDone(t)})

\* The step that launches the tasks of a stage is the driver's receipt of the
\* last Done of the stage before.
C27_LaunchStep ==
    \A p \in DOMAIN pipes :
        (TasksLaunchedBy(p)' # TasksLaunchedBy(p)) =>
            /\ pipes[p].status = "running"
            /\ pipes'[p].idx = pipes[p].idx + 1
            /\ Head(pipes[p].chan) = MsgDone
            /\ DonesReceived(p) = Len(pipes[p].elements) - 1
            /\ \A t \in TasksOf(p, pipes[p].idx) : tasks[t].pc = "done" /\ SentDone(t)
            /\ \A t \in TasksLaunchedBy(p)' \ TasksLaunchedBy(p) :
                  StageOf(t) = pipes[p].idx + 1

C27_StagesSequential == []C27_OneStageLive /\ [][C27_LaunchStep]_vars

\* The second stage of a run was launched after a first stage of two tasks, on
\* a channel of capacity one.
C27_Witness ==
    /\ Called(Root)
    /\ capacity = 1
    /\ pipes[Root].status = "running"
    /\ pipes[Root].idx = 2
    /\ Cardinality(TasksOf(Root, 1)) = 2
    /\ Cardinality(TasksOf(Root, 2)) >= 2
    /\ \E t \in TasksOf(Root, 2) : ~Ended(t)

(***************************************************************************)
(* C28: after the driver of a call has returned on an Error, every task of *)
(* that call that is still at work eventually ends.  A send onto the       *)
(* closed channel fails at once and is ignored: a task that has a message  *)
(* to send on a closed channel can always take the step, whatever the      *)
(* channel holds, and the step puts nothing on the channel.  Nothing such  *)
(* a task does changes the result of the call: the returned error, the     *)
(* vectors and the status stay as they were at the return.                 *)
(***************************************************************************)
\* Some task of a call that returned an error has not ended.
ErrLive == \E t \in DOMAIN tasks : pipes[PipeOf(t)].status = "err" /\ ~Ended(t)
SomePanicked == \E t \in DOMAIN tasks : tasks[t].pc = "panicked"

C28_ClosedSendFree ==
    \A t \in DOMAIN tasks :
        (tasks[t].pc = "send" /\ ~ChannelOpen(t)) => ENABLED TaskSend(t)

C28_ResultKept ==
    \A p \in DOMAIN pipes : pipes[p].status # "running" => pipes'[p] = pipes[p]

C28_ErrorStageTerminates ==
    /\ ErrLive ~> ~ErrLive
    /\ []C28_ClosedSendFree
    /\ [][C28_ResultKept]_vars

\* The same, for the runs in which no task panics.
C28_TerminatesUnlessPanic ==
    /\ ErrLive ~> (~ErrLive \/ SomePanicked)
    /\ []C28_ClosedSendFree
    /\ [][C28_ResultKept]_vars

\* The driver has returned on an Error while a task of the stage still has three
\* messages to send on a channel of capacity one.
C28_Blocked ==
    /\ Called(Root)
    /\ capacity = 1
    /\ pipes[Root].status = "err"
    /\ \E t \in TasksOf(Root, 1) : tasks[t].pc = "send" /\ Len(tasks[t].out) = 3

(***************************************************************************)
(* C29: for a URL with path segments s0..s(m-1) and every 8-bit signed     *)
(* index i, UrlGetSegment(i) emits Text(s_i) when 0 <= i < m, emits        *)
(* Text(s_(m+i)) when -m <= i < 0, so that -1 is the last segment, and     *)
(* emits nothing otherwise; the computation of -i-1 overflows for no       *)
(* negative i, -128 included, so the task always gets to its Done.         *)
(***************************************************************************)
SegmentSpecified(segs, i) ==
    LET m == Len(segs)
    IN  IF 0 <= i /\ i < m THEN <<Text(segs[i + 1])>>
        ELSE IF -m <= i /\ i < 0 THEN <<Text(segs[m + i + 1])>>
        ELSE <<>>

SegmentTasks ==
    {t \in DOMAIN tasks : /\ tasks[t].action.name = "UrlGetSegment"
                          /\ tasks[t].element.t = "Url"
                          /\ HasPathSegments(tasks[t].element.v)}

SegmentAsSpecified(t) ==
    /\ tasks[t].action.num \in I8
    /\ tasks[t].action.num < 0 => ~NegIndexOverflows(tasks[t].action.num)
    /\ tasks[t].pc # "panicked"
    /\ PastArm(t) =>
          Messages(t) = Emit(SegmentSpecified(PathSegments(tasks[t].element.v),
                                              tasks[t].action.num))

C29_UrlGetSegment == \A t \in SegmentTasks : SegmentAsSpecified(t)

\* The same for every index but -128.
C29_SegmentAboveMin ==
    \A t \in SegmentTasks : tasks[t].action.num # -128 => SegmentAsSpecified(t)

\* Index -3 on a URL of three segments gave its first segment.
C29_FromEnd ==
    \E t \in SegmentTasks :
        /\ tasks[t].action.num = -3
        /\ tasks[t].pc = "done"
        /\ tasks[t].trace = Emit(<<Text("a")>>)
        /\ pipes[Root].status = "ok" /\ pipes[Root].elements = <<Text("a")>>

(***************************************************************************)
(* C30: Cache::get changes nothing.  After a lookup the map's keys, values *)
(* and generations and the counter are what they were before it, on a hit  *)
(* and on a miss, and the lookup returned the stored value or nothing.  A  *)
(* lookup does not refresh the entry's generation: every entry's           *)
(* generation is that of an insert call, below the counter, so its age     *)
(* counts the insertions since it was stored.                              *)
(***************************************************************************)
Looked == calls.got # <<>> /\ calls.last = <<>>

C30_GetFrame ==
    /\ Looked =>
          LET g == calls.got[1]
          IN  /\ cache = g.before
              /\ g.value = CacheGet(g.before, g.key)
              /\ g.value # <<>> <=> g.key \in DOMAIN cache.data
    /\ \A k \in DOMAIN cache.data :
          LET age == wrapping_sub(cache.last_id, cache.data[k].id)
          IN  age >= 1 /\ age <= calls.n

C30_GetStep ==
    (calls'.got # calls.got \/ (calls'.last = <<>> /\ calls.last # <<>>)) =>
        /\ cache'.data = cache.data
        /\ cache'.last_id = cache.last_id
        /\ calls'.n = calls.n

C30_GetChangesNothing == []C30_GetFrame /\ [][C30_GetStep]_vars

\* A hit on an entry stored one insertion ago in a cache that has room for it.
C30_Witness ==
    /\ Looked
    /\ calls.got[1].value = <<UrlMail>>
    /\ cache.N = 2
    /\ calls.n = 1
    /\ cache.data[calls.got[1].key].id = wrapping_sub(cache.last_id, 1)

\* A miss on a key that an earlier insert call had passed.
C30_Miss ==
    /\ Looked
    /\ calls.got[1].value = <<>>
    /\ calls.got[1].key \in calls.keys

(***************************************************************************)
(* C21: for tabular output each top-level element becomes one row, equal   *)
(* to flatten(el), where flatten(Pair(L, R)) is flatten of the first       *)
(* element of L, if any, followed by flatten of the first element of R, if *)
(* any, and flatten(leaf) is [leaf].  Every row holds only Text, Html,     *)
(* Email or Url values and never a Pair; the elements of a pair side after *)
(* its first are dropped; an empty side contributes nothing;               *)
(* Pair([Text(s)], [Text(f)]) gives the row [Text(s), Text(f)]; there are  *)
(* as many rows as top-level elements.                                     *)
(***************************************************************************)
LeafTypes == {"Text", "Html", "Email", "Url"}

\* flatten on elements, as the claim defines it.
RECURSIVE FlattenSpecified(_)
FlattenSpecified(el) ==
    IF el.t # "Pair" THEN <<el>>
    ELSE (IF el.l = <<>> THEN <<>> ELSE FlattenSpecified(el.l[1]))
             \o (IF el.r = <<>> THEN <<>> ELSE FlattenSpecified(el.r[1]))

\* The leaf element el as a value of a row.
RowValue(el) ==
    SerdeLeaf(el.t, IF el.t = "Email" THEN EmailById(el.v).id ELSE el.v)

Tabular == response.status = "ok" /\ response.format = "csv"

C21_RowsAreFlattened ==
    Tabular =>
        LET pipelined == pipes[Root].elements
            rows == response.table
        IN  /\ Len(rows) = Len(pipelined)
            /\ response.json = <<>>
            /\ \A i \in 1..Len(rows) :
                  LET el == pipelined[i]
                      leaves == FlattenSpecified(el)
                  IN  /\ rows[i] = [j \in 1..Len(leaves) |-> RowValue(leaves[j])]
                      /\ \A j \in 1..Len(rows[i]) :
                            /\ rows[i][j].type \in LeafTypes
                            /\ rows[i][j].left = <<>> /\ rows[i][j].right = <<>>
                      /\ el.t # "Pair" => Len(rows[i]) = 1
                      /\ (el.t = "Pair" /\ el.l = <<>> /\ el.r = <<>>) => rows[i] = <<>>
                      /\ (el.t = "Pair" /\ el.l # <<>> /\ el.r # <<>>
                              /\ el.l[1].t = "Text" /\ el.r[1].t = "Text") =>
                            rows[i] = <<SerdeLeaf("Text", el.l[1].v),
                                        SerdeLeaf("Text", el.r[1].v)>>

\* Two rows: the leaves of a nested pair whose first side holds two elements,
\* and the row [Text(s), Text(f)].
C21_Witness ==
    /\ Tabular
    /\ pipes[Root].elements =
          << PairEl(<<PairEl(<<EmailEl("e3")>>, <<>>), Text("c")>>, <<Text("d")>>),
             PairEl(<<Text("s")>>, <<Text("f")>>) >>
    /\ response.table = << <<SerdeLeaf("Email", "e3"), SerdeLeaf("Text", "d")>>,
                           <<SerdeLeaf("Text", "s"), SerdeLeaf("Text", "f")>> >>

(***************************************************************************)
(* C22: the projection of an element to its serializable form keeps the    *)
(* variant and the content of Html, Text and Url; maps Email(e) to Email   *)
(* of e's id, exposing no other field of the record; and maps Pair(L, R)   *)
(* to Pair of the projections of L and of R, in the same order and with    *)
(* the same lengths, at every nesting depth.  The structured answer is the *)
(* returned vector projected element by element.                           *)
(***************************************************************************)
\* The fields of an email record other than its id.
OtherFields(eml) == {eml.html, eml.user, eml.from_addr, eml.to_addr, eml.subject}

\* s is the projection of el, as the claim defines it.
RECURSIVE Projects(_, _)
Projects(el, s) ==
    /\ DOMAIN s = {"type", "value", "left", "right"}
    /\ s.type = el.t
    /\ el.t \in {"Html", "Text", "Url"} =>
          s.value = el.v /\ s.left = <<>> /\ s.right = <<>>
    /\ el.t = "Email" =>
          /\ \E eml \in Emails : eml.id = s.value /\ el = EmailEl(eml.id)
          /\ s.value \notin OtherFields(EmailById(el.v))
          /\ s.left = <<>> /\ s.right = <<>>
    /\ el.t = "Pair" =>
          /\ Len(s.left) = Len(el.l) /\ Len(s.right) = Len(el.r)
          /\ \A i \in 1..Len(el.l) : Projects(el.l[i], s.left[i])
          /\ \A i \in 1..Len(el.r) : Projects(el.r[i], s.right[i])

Structured == response.status = "ok" /\ response.format = "json"

C22_ProjectionKeepsContent ==
    Structured =>
        /\ Len(response.json) = Len(pipes[Root].elements)
        /\ response.table = <<>>
        /\ \A i \in 1..Len(response.json) :
              Projects(pipes[Root].elements[i], response.json[i])

\* The projection of a pair nested three deep that holds an email, sides of two
\* elements and an empty side.
C22_Witness ==
    /\ Structured
    /\ pipes[Root].elements =
          << PairEl(<<PairEl(<<PairEl(<<EmailEl("e3")>>, <<>>), Text("c")>>, <<Text("d")>>)>>,
                    <<Text("f"), PairEl(<<>>, <<Text("b"), Html(HtmlPara)>>)>>) >>
    /\ response.json[1].left[1].left[1].left[1] = SerdeLeaf("Email", "e3")
    /\ response.json[1].right[2].right[2] = SerdeLeaf("Html", HtmlPara)

(***************************************************************************)
(* C23: every Email element present in any stage's vector of a run, at top *)
(* level or nested in a Pair at any depth or inside a sub-pipeline, is one *)
(* of the run's seed emails: no action makes an Email from anything but    *)
(* that Email.  The handler seeds the run with exactly the records whose   *)
(* user is the authenticated identity, one Email per record, so no answer  *)
(* holds an Email of another user.                                         *)
(***************************************************************************)
\* The ids of the emails in a vector of elements, nested ones included.
RECURSIVE EmailIds(_)
EmailIds(els) ==
    UNION { IF els[i].t = "Email" THEN {els[i].v}
            ELSE IF els[i].t = "Pair" THEN EmailIds(els[i].l) \cup EmailIds(els[i].r)
            ELSE {} : i \in 1..Len(els) }

\* The same for a vector of serializable elements.
RECURSIVE SerdeEmailIds(_)
SerdeEmailIds(els) ==
    UNION { IF els[i].type = "Email" THEN {els[i].value}
            ELSE IF els[i].type = "Pair"
            THEN SerdeEmailIds(els[i].left) \cup SerdeEmailIds(els[i].right)
            ELSE {} : i \in 1..Len(els) }

EmailsOnlyFromSeed ==
    /\ \A p \in DOMAIN pipes :
          EmailIds(pipes[p].seed \o pipes[p].elements \o pipes[p].new_elements
                       \o ElementsOf(pipes[p].chan)) \subseteq EmailIds(seed)
    /\ \A t \in DOMAIN tasks :
          EmailIds(<<tasks[t].element>> \o ElementsOf(Messages(t))) \subseteq EmailIds(seed)

C23_EmailsOfUserOnly ==
    LET own == {m.id : m \in {x \in Emails : x.user = response.user}}
    IN  /\ EmailsOnlyFromSeed
        /\ Called(Root) =>
              /\ Len(seed) = Cardinality(own)
              /\ \A i \in 1..Len(seed) : seed[i].t = "Email"
              /\ {seed[i].v : i \in 1..Len(seed)} = own
        /\ SerdeEmailIds(response.json) \subseteq own
        /\ \A i \in 1..Len(response.table) : SerdeEmailIds(response.table[i]) \subseteq own

\* The user of two records got both back, nested two deep in pairs, while the
\* store holds a record of another user.
C23_Witness ==
    /\ response.user = "u"
    /\ Structured
    /\ Len(response.json) = 2
    /\ SerdeEmailIds(response.json) = {"e1", "e2"}
    /\ response.json[1].type = "Pair"
    /\ \E m \in Emails : m.user # response.user

(***************************************************************************)
(* C31: an operand that does not parse (regex, CSS selector) is detected   *)
(* only by a task whose input element has the variant the action accepts.  *)
(* A stage whose action carries such an operand and whose input elements   *)
(* are all of other variants sends no Error and completes; a call in which *)
(* the vector is empty when that action is reached launches no task for it *)
(* and returns Ok; a stage with at least one input element of the accepted *)
(* variant never completes and returns InvalidInput(operand), on every     *)
(* schedule.                                                               *)
(***************************************************************************)
InvalidRegexes == {"("}
InvalidSelectors == {"a["}
Operand(action) == IF action.name = "EmailFilterRegex" THEN action.arg2 ELSE action.arg
InvalidOperand(action) ==
    \/ /\ action.name \in {"TextMatchRegex", "TextFilterRegex", "EmailFilterRegex"}
       /\ Operand(action) \in InvalidRegexes
    \/ /\ action.name \in {"HtmlSelectCss", "HtmlFilterCss"}
       /\ Operand(action) \in InvalidSelectors

Accepting(p, k) == {t \in TasksOf(p, k) : Accepts(tasks[t].action, tasks[t].element)}

\* The stages entered so far whose action carries an invalid operand.
OperandStages ==
    {pk \in UNION {{<<p, k>> : k \in 1..pipes[p].idx} : p \in DOMAIN pipes} :
        InvalidOperand(pipes[pk[1]].actions[pk[2]])}

\* Such a stage is still running.
OperandPending ==
    \E pk \in OperandStages : pipes[pk[1]].status = "running" /\ pipes[pk[1]].idx = pk[2]

OperandStageAsSpecified(p, k) ==
    LET action == pipes[p].actions[k]
    IN  /\ TasksOf(p, k) # {}
        /\ \A t \in TasksOf(p, k) \ Accepting(p, k) : Messages(t) = <<MsgDone>>
        /\ \A t \in Accepting(p, k) : Messages(t) = <<MsgError(InvalidInput(Operand(action)))>>
        /\ IF Accepting(p, k) = {}
           THEN ~(pipes[p].idx = k /\ pipes[p].status = "err")
           ELSE /\ ~StageCompleted(p, k)
                /\ pipes[p].status = "err" => pipes[p].error = InvalidInput(Operand(action))

C31_Detected ==
    /\ \A pk \in OperandStages : OperandStageAsSpecified(pk[1], pk[2])
    /\ \A p \in DOMAIN pipes :
          /\ \A k \in (pipes[p].idx + 1)..Len(pipes[p].actions) : TasksOf(p, k) = {}
          /\ (pipes[p].status = "ok" /\ pipes[p].idx < Len(pipes[p].actions)) =>
                pipes[p].elements = <<>>

C31_InvalidOperand == []C31_Detected /\ (OperandPending ~> ~OperandPending)

\* TextFilterRegex with an invalid regex ran on an Html and a Text element: the
\* Html task's Done was received, the call returned the operand as InvalidInput.
C31_Witness ==
    /\ script = <<A1("TextFilterRegex", "(")>>
    /\ seed = <<Html(HtmlPara), Text("aa a")>>
    /\ Called(Root)
    /\ pipes[Root].status = "err" /\ pipes[Root].error = InvalidInput("(")
    /\ pipes[Root].need_finish = 1
    /\ tasks[TaskId(Root, 1, 0)].trace = <<MsgDone>>

\* The same action on elements of other variants only: Ok, nothing detected.
C31_OtherVariants ==
    /\ script = <<A1("HtmlSelectCss", "a[")>>
    /\ seed = <<Text("aa a"), UrlEl(UrlLong)>>
    /\ Called(Root)
    /\ pipes[Root].status = "ok" /\ pipes[Root].elements = <<>>

\* The vector was empty when the action with the invalid operand was reached.
C31_EmptyAtAction ==
    /\ script = <<A1("HtmlSelectCss", "a"), A1("TextFilterRegex", "(")>>
    /\ seed = <<Html(HtmlPara)>>
    /\ Called(Root)
    /\ pipes[Root].status = "ok" /\ pipes[Root].idx = 1
    /\ TasksOf(Root, 2) = {}

(***************************************************************************)
(* C32: every exec_pipeline call returns, with Ok or Err, under fair       *)
(* scheduling when every file read and every HTTP request comes back: at   *)
(* any nesting depth of Or, Pair and Filter, tasks waiting to send on the  *)
(* bounded channel, drivers waiting to receive and combinator tasks        *)
(* awaiting their own sub-pipeline never wait for one another in a cycle,  *)
(* so while a call is running some step can be taken, and eventually no    *)
(* call is running.                                                        *)
(***************************************************************************)
AnyRunning == \E p \in DOMAIN pipes : pipes[p].status = "running"

C32_Terminates ==
    /\ AnyRunning ~> ~AnyRunning
    /\ [](AnyRunning => ENABLED Next)

\* The same, for the runs in which no task panics.
C32_TerminatesUnlessPanic ==
    /\ AnyRunning ~> (~AnyRunning \/ SomePanicked)
    /\ []((AnyRunning /\ ~SomePanicked) => ENABLED Next)

\* A call three combinators deep has returned, and every call of the run with it,
\* on a channel of capacity one.
C32_Deep ==
    /\ capacity = 1
    /\ Called(Root)
    /\ ~AnyRunning
    /\ ~SomePanicked
    /\ \E p \in DOMAIN pipes : Len(p) = 9 /\ pipes[p].status = "ok" /\ pipes[p].elements # <<>>

(***************************************************************************)
(* C33: the lookup and the insert of UrlFollowRedirect are separate steps  *)
(* with the fetch between them.  Two tasks at work on the same uncached    *)
(* URL, in one stage or in two calls, can both miss, both fetch and both   *)
(* insert; once both inserts have returned the cache holds one entry for   *)
(* the URL, and its value and generation are those of the insert that      *)
(* stored last: a store sets the entry of its URL to its own value and     *)
(* generation, and no other step changes or removes that entry.            *)
(***************************************************************************)
\* The tasks that missed on u and whose fetch succeeded.
Racers(u) == {t \in DOMAIN tasks : Follows(t) /\ tasks[t].element.v = u /\ tasks[t].id # NoId}
Stored(t) == tasks[t].pc \in {"evict", "send", "done"}
Stores(t) == tasks[t].pc = "store" /\ tasks'[t].pc = "evict"
FollowedUrls == {tasks[t].element.v : t \in {x \in DOMAIN tasks : Follows(x)}}

BothInserted(u) ==
    \E t1, t2 \in Racers(u) : t1 # t2 /\ Fetched(t1) /\ Fetched(t2)

EntryOfARacer(u) ==
    /\ u \in DOMAIN cache.data
    /\ cache.data[u].value = ResponseUrl(u)
    /\ \E t \in Racers(u) : Stored(t) /\ cache.data[u].id = tasks[t].id

C33_StoreStep ==
    \A t \in DOMAIN tasks :
        Stores(t) =>
            LET u == tasks[t].element.v
            IN  /\ DOMAIN cache'.data = DOMAIN cache.data \cup {u}
                /\ cache'.data[u] = [value |-> ResponseUrl(u), id |-> tasks[t].id]
                /\ \A k \in DOMAIN cache.data \ {u} : cache'.data[k] = cache.data[k]

C33_KeepStep ==
    \A u \in FollowedUrls \cap DOMAIN cache.data :
        (\A t \in Racers(u) : ~Stores(t)) =>
            u \in DOMAIN cache'.data /\ cache'.data[u] = cache.data[u]

C33_LaterInsertWins ==
    /\ [](\A u \in FollowedUrls : BothInserted(u) => EntryOfARacer(u))
    /\ [][C33_StoreStep /\ C33_KeepStep]_vars

\* The same while fewer than N insertions were made since the cache was created.
C33_WinsBelowN ==
    /\ [](\A u \in FollowedUrls :
             (BothInserted(u) /\ cache.last_id < cache.N) => EntryOfARacer(u))
    /\ [][C33_StoreStep /\ (cache'.last_id < cache.N => C33_KeepStep)]_vars

\* Two tasks of one stage missed on the same URL, both fetched and both inserted;
\* the task that took the later generation stored first, so the entry has the
\* earlier generation.
C33_BothInserted ==
    /\ cache.N = CacheN /\ cache.last_id = 2
    /\ LET t1 == TaskId(Root, 1, 0)
           t2 == TaskId(Root, 1, 1)
       IN  /\ {t1, t2} \subseteq Racers(UrlLong)
           /\ Fetched(t1) /\ Fetched(t2)
           /\ tasks[t1].id = 0 /\ tasks[t2].id = 1
           /\ DOMAIN cache.data = {UrlLong}
           /\ cache.data[UrlLong] = [value |-> UrlFinal, id |-> 0]

\* The same for two tasks of two calls.
C33_TwoCalls ==
    /\ cache.last_id = 2
    /\ \E t1, t2 \in Racers(UrlLong) :
          /\ PipeOf(t1) # PipeOf(t2)
          /\ Fetched(t1) /\ Fetched(t2)
          /\ DOMAIN cache.data = {UrlLong}
          /\ cache.data[UrlLong].value = UrlFinal

(***************************************************************************)
(* C34: a call that has returned an error can still change the shared URL  *)
(* cache.  The UrlFollowRedirect tasks of the aborted stage, and of the    *)
(* sub-pipelines under it, that are in flight are not cancelled: each can  *)
(* take its next step, a fetch that succeeds takes a generation, the store *)
(* puts the task's result in the cache, and an insert that has begun       *)
(* comes to its end.                                                       *)
(***************************************************************************)
\* Task t belongs to the stage in which call p returned an error, or to a
\* sub-pipeline under a task of that stage.
Under(t, p) ==
    /\ Len(t) >= Len(p) + 2
    /\ (Len(t) - Len(p)) % 3 = 2
    /\ SubSeq(t, 1, Len(p)) = p
    /\ pipes[p].status = "err"
    /\ pipes[p].idx = t[Len(p) + 1]

Aborted(t) == \E p \in DOMAIN pipes : Under(t, p)
InFlight(t) == Follows(t) /\ Aborted(t) /\ tasks[t].pc \in {"http", "store", "evict"}
AbortedInserting == \E t \in DOMAIN tasks : InFlight(t) /\ tasks[t].pc \in {"store", "evict"}

C34_NotCancelled ==
    \A t \in DOMAIN tasks :
        InFlight(t) =>
            /\ tasks[t].pc = "http" => ENABLED TaskHttp(t)
            /\ tasks[t].pc = "store" => ENABLED TaskStore(t)
            /\ tasks[t].pc = "evict" => ENABLED TaskEvict(t)

C34_InsertStep ==
    \A t \in DOMAIN tasks :
        (InFlight(t) /\ tasks'[t] # tasks[t]) =>
            LET u == tasks[t].element.v
            IN  /\ (tasks[t].pc = "http" /\ tasks'[t].pc = "store") =>
                      /\ tasks'[t].id = cache.last_id
                      /\ cache'.last_id = wrapping_add(cache.last_id, 1)
                /\ (tasks[t].pc = "http" /\ tasks'[t].pc # "store") => cache' = cache
                /\ tasks[t].pc = "store" =>
                      /\ tasks'[t].pc = "evict"
                      /\ u \in DOMAIN cache'.data
                      /\ cache'.data[u] = [value |-> ResponseUrl(u), id |-> tasks[t].id]
                      /\ cache' # cache
                /\ \A p \in DOMAIN pipes : Under(t, p) => pipes'[p] = pipes[p]

C34_AbortedRunInserts ==
    /\ []C34_NotCancelled
    /\ [][C34_InsertStep]_vars
    /\ AbortedInserting ~> ~AbortedInserting

\* The root call has returned an error on a cache nothing was inserted in, and a
\* UrlFollowRedirect task of the aborted stage is awaiting its fetch.
C34_Witness ==
    /\ Called(Root)
    /\ pipes[Root].status = "err"
    /\ cache = EmptyCache
    /\ \E t \in TasksOf(Root, pipes[Root].idx) : InFlight(t) /\ tasks[t].pc = "http"

\* The same for a task of a sub-pipeline under the aborted stage, about to store.
C34_UnderWitness ==
    /\ Called(Root)
    /\ pipes[Root].status = "err"
    /\ cache.data = EmptyCache.data
    /\ \E t \in DOMAIN tasks : Len(t) = 5 /\ InFlight(t) /\ tasks[t].pc = "store"

\* An aborted stage has left an entry in the cache: the call returned an error
\* with nothing collected, and a task of the stage has inserted and ended.
C34_Inserted ==
    /\ script = <<A0("UrlFollowRedirect"), A0("UrlFollowRedirect")>>
    /\ Called(Root)
    /\ pipes[Root].status = "err" /\ pipes[Root].idx = 1
    /\ pipes[Root].new_elements = <<>>
    /\ DOMAIN cache.data = {UrlLong}
    /\ \E t \in TasksOf(Root, 1) : Aborted(t) /\ tasks[t].pc = "done" /\ tasks[t].id = 0

(***************************************************************************)
(* C35: a stage of the driver ends only by receiving an Error or by        *)
(* counting n Done markers for its n tasks.  While the stage runs, the     *)
(* outstanding counter is the number of its tasks whose Done has not been  *)
(* received, between 1 and n; it goes down by one with each Done received  *)
(* and by nothing else, and never below zero.  The driver holds a sender   *)
(* of its own for the whole stage, so the channel it reads is never        *)
(* closed: on an empty channel it waits.  Hence a stage in which a task    *)
(* has ended without sending Done or Error never completes.                *)
(***************************************************************************)
\* The tasks of p's current stage whose Done the driver has not received.
Outstanding(p) ==
    LET stage == TasksOf(p, pipes[p].idx)
        sent == {t \in stage : SentDone(t)}
    IN  Cardinality(stage) - (Cardinality(sent) - DonesIn(pipes[p].chan))

\* The senders of the channel of p's current stage: the driver's tx and the clone
\* of every task of the stage that has not ended.
Senders(p) == 1 + Cardinality({t \in TasksOf(p, pipes[p].idx) : ~Ended(t)})

\* Task t has ended and sent neither Done nor Error.
EndedSilent(t) ==
    /\ Ended(t)
    /\ \A i \in 1..Len(tasks[t].trace) : tasks[t].trace[i].kind = "Element"

C35_Counter ==
    \A p \in DOMAIN pipes :
        /\ pipes[p].need_finish >= 0
        /\ pipes[p].status = "running" =>
              /\ pipes[p].need_finish = Outstanding(p)
              /\ pipes[p].need_finish >= 1
              /\ pipes[p].need_finish <= Cardinality(TasksOf(p, pipes[p].idx))
              /\ Senders(p) >= 1
              /\ pipes[p].chan = <<>> => ~ENABLED DriverRecv(p)
        /\ \A t \in TasksLaunchedBy(p) :
              EndedSilent(t) =>
                  /\ ~StageCompleted(p, StageOf(t))
                  /\ pipes[p].idx = StageOf(t)
                  /\ pipes[p].status # "ok"

C35_DriverStep ==
    \A p \in DOMAIN pipes :
        (pipes[p].status = "running" /\ pipes'[p] # pipes[p]) =>
            LET ends == pipes'[p].status # "running" \/ pipes'[p].idx # pipes[p].idx
                m == Head(pipes[p].chan)
            IN  /\ ends =>
                      /\ pipes[p].chan # <<>>
                      /\ \/ /\ m.kind = "Error"
                            /\ pipes'[p].status = "err" /\ pipes'[p].error = m.err
                            /\ pipes'[p].idx = pipes[p].idx
                         \/ /\ m = MsgDone
                            /\ pipes[p].need_finish = 1
                            /\ \A t \in TasksOf(p, pipes[p].idx) : SentDone(t)
                            /\ pipes'[p].status \in {"running", "ok"}
                /\ (~ends /\ pipes'[p].need_finish # pipes[p].need_finish) =>
                      /\ pipes[p].chan # <<>> /\ m = MsgDone
                      /\ pipes'[p].need_finish = pipes[p].need_finish - 1

C35_StageEnds == []C35_Counter /\ [][C35_DriverStep]_vars

\* One task of a stage of three panicked before any send; the Done of the other
\* two was received, the channel is empty and the driver waits for a third Done.
C35_Witness ==
    /\ Called(Root)
    /\ pipes[Root].status = "running" /\ pipes[Root].idx = 1
    /\ Cardinality(TasksOf(Root, 1)) = 3
    /\ \A t \in TasksOf(Root, 1) : Ended(t)
    /\ \E t \in TasksOf(Root, 1) : EndedSilent(t)
    /\ pipes[Root].chan = <<>>
    /\ pipes[Root].need_finish = 1
    /\ ~ENABLED Next

\* A stage of two tasks has ended on its second Done, and the next has begun.
C35_Counted ==
    /\ Called(Root)
    /\ pipes[Root].status = "running" /\ pipes[Root].idx = 2
    /\ Cardinality(TasksOf(Root, 1)) = 2
    /\ \A t \in TasksOf(Root, 1) : SentDone(t)

(***************************************************************************)
(* C36: in the eviction pass of Cache.insert the age of an entry is the    *)
(* evicting call's own generation minus the entry's generation, modulo the *)
(* word size.  When a concurrent insert that took a larger generation has  *)
(* already stored its entry, that entry's age in the pass wraps around to  *)
(* a value of at least N although it is the newest entry of the map, and   *)
(* the pass treats it as it treats an entry exactly N insertions old, not  *)
(* as it treats one N - 1 insertions old.                                  *)
(***************************************************************************)
\* a - b modulo the word size (WordMax + 1), for a and b in 0..WordMax.
ModSub(a, b) == IF a >= b THEN a - b ELSE (WordMax - (b - a)) + 1
AgeIn(id, entry) == ModSub(id, entry.id)

\* Caller c runs its len test and retain pass in this step.
Evicts(c) == calls.active[c].pc = "evict" /\ calls'.active[c].pc = "idle"

\* What the pass of generation id on map c does to an entry that is age
\* insertions old: TRUE when the entry is left in the map.
ProbeKey == "https://h.test/probe"
ProbeLeft(c, id, age) ==
    ProbeKey \in DOMAIN CacheEvict(CacheStore(c, ProbeKey, UrlFinal, ModSub(id, age)), id).data

\* Entries of the map stored by a call that took its generation after id: a
\* larger one, by at most the number of calls made (counted round the word when
\* the counter has wrapped in between).
NewerThan(id) == {k \in DOMAIN cache.data : ModSub(cache.data[k].id, id) \in 1..calls.n}

C36_EvictStep ==
    \A c \in 1..MaxCallers :
        (Evicts(c) /\ Cardinality(DOMAIN cache.data) >= cache.N) =>
            LET id == calls.active[c].id
            IN  /\ ProbeLeft(cache, id, cache.N) # ProbeLeft(cache, id, cache.N - 1)
                /\ \A k \in DOMAIN cache.data :
                      (k \in DOMAIN cache'.data) =
                          IF AgeIn(id, cache.data[k]) >= cache.N
                          THEN ProbeLeft(cache, id, cache.N)
                          ELSE ProbeLeft(cache, id, cache.N - 1)
                /\ \A k \in NewerThan(id) :
                      /\ AgeIn(id, cache.data[k]) + (ModSub(cache.data[k].id, id) - 1) = WordMax
                      /\ AgeIn(id, cache.data[k]) >= cache.N
                      /\ (k \in DOMAIN cache'.data) = ProbeLeft(cache, id, cache.N)

C36_AgeWraps == [][C36_EvictStep]_vars

\* A caller that took generation 0 is about to run its pass on a map that holds
\* its own entry and the entry of a caller that took generation 1.
C36_Witness ==
    /\ cache.N = 1
    /\ \E c \in 1..MaxCallers :
          /\ calls.active[c].pc = "evict"
          /\ calls.active[c].id = 0
          /\ Cardinality(DOMAIN cache.data) = 2
          /\ \E k \in NewerThan(0) : cache.data[k].id = 1 /\ AgeIn(0, cache.data[k]) = WordMax

====
